---- MODULE Spec2Model ----
(***************************************************************************)
(* Model of the rule-based intent parser of the navigation assistant       *)
(* (src/src/services/intentParser.js) and of the steps of the server that  *)
(* drive it.                                                               *)
(*                                                                         *)
(* A JavaScript string is modelled as the sequence of its UTF-16 code      *)
(* units (naturals), so that the sentinels, the markers and the city names *)
(* are ordinary in-band text, exactly as in the program.                   *)
(***************************************************************************)
EXTENDS Integers, Sequences, FiniteSets, TLC

(***************************************************************************)
(* Words of the source, as code-unit sequences.                            *)
(***************************************************************************)
\* 导航
DaoHang == <<23548, 33322>>
\* 去
Qu == <<21435>>
\* 到
Dao == <<21040>>
\* 前往
QianWang == <<21069, 24448>>
\* 从
Cong == <<20174>>
\* 至
Zhi == <<33267>>
\* 出发
ChuFa == <<20986, 21457>>
\* 开始
KaiShi == <<24320, 22987>>
\* Variant of FillerChars: the class without 我.
FillerChars_withoutWo == {35831, 24110}

\* 请, 帮, 我 : the character class [请帮帮我] of cleanCommand
FillerChars == {35831, 24110, 25105}
\* a single space, the replacement text of /\s+/g
Space == <<32>>
\* 当前位置 : the current-location sentinel
CurrentLocation == <<24403, 21069, 20301, 32622>>
\* 未指定目的地 : the unspecified-destination sentinel
UnspecifiedDestination == <<26410, 25351, 23450, 30446, 30340, 22320>>
\* 无法识别的指令
UnrecognizedText == <<26080, 27861, 35782, 21035, 30340, 25351, 20196>>
\* 市
Shi == <<24066>>
\* 北京, 京城, 帝都
BeiJing == <<21271, 20140>>
JingCheng == <<20140, 22478>>
DiDu == <<24093, 37117>>
\* 上海, 申城, 魔都
ShangHai == <<19978, 28023>>
ShenCheng == <<30003, 22478>>
MoDu == <<39764, 37117>>
\* 广州, 羊城
GuangZhou == <<24191, 24030>>
YangCheng == <<32650, 22478>>
\* 深圳, 鹏城
ShenZhen == <<28145, 22323>>
PengCheng == <<40527, 22478>>
\* 杭州, 杭城
HangZhou == <<26477, 24030>>
HangCheng == <<26477, 22478>>
\* 成都, 蓉城
ChengDu == <<25104, 37117>>
RongCheng == <<33993, 22478>>
\* 武汉, 江城
WuHan == <<27494, 27721>>
JiangCheng == <<27743, 22478>>
\* 西安, 长安
XiAn == <<35199, 23433>>
ChangAn == <<38271, 23433>>
\* 南京, 金陵
NanJing == <<21335, 20140>>
JinLing == <<37329, 38517>>
\* 天津
TianJin == <<22825, 27941>>

\* 家
Jia == <<23478>>
\* 公司
GongSi == <<20844, 21496>>
\* 回家
HuiJia == <<22238, 23478>>
\* 天安门广场
TianAnMenGuangChang == <<22825, 23433, 38376, 24191, 22330>>
\* 随便说点什么
SuiBianShuo == <<38543, 20415, 35828, 28857, 20160, 20040>>
\* 请, 帮, 我 as one-character strings
Qing == <<35831>>
Bang == <<24110>>
Wo == <<25105>>
\* a line feed and an ideographic space (both white space; the first is
\* also a line terminator)
LineFeed == <<10>>
IdeographicSpace == <<12288>>

(***************************************************************************)
(* String primitives of JavaScript used by the parser.                     *)
(***************************************************************************)
\* White space of /\s/ and of String.prototype.trim.
IsWhiteSpace(c) ==
    c \in ({9, 10, 11, 12, 13, 32, 160, 5760, 8232, 8233, 8239, 8287, 12288, 65279}
           \cup (8192..8202))

\* Line terminators, which the regular-expression dot does not match.
IsLineTerminator(c) == c \in {10, 13, 8232, 8233}

\* The regular-expression dot (no s flag).
Dot(c) == ~IsLineTerminator(c)

\* Word w occurs in t at position i (1-based).
StartsWithAt(t, i, w) ==
    /\ i >= 1
    /\ i + Len(w) - 1 <= Len(t)
    /\ \A j \in 1..Len(w) : t[i + j - 1] = w[j]

\* String.prototype.includes
Includes(t, w) == \E i \in 1..(Len(t) + 1) : StartsWithAt(t, i, w)

\* String.prototype.trim
trim(s) ==
    LET keep == {i \in 1..Len(s) : ~IsWhiteSpace(s[i])}
    IN  IF keep = {} THEN << >>
        ELSE LET lo == CHOOSE i \in keep : \A j \in keep : i <= j
                 hi == CHOOSE i \in keep : \A j \in keep : i >= j
             IN  SubSeq(s, lo, hi)

\* Sequence concatenation of a sequence of strings.
RECURSIVE Concat(_)
Concat(ws) == IF ws = << >> THEN << >> ELSE Head(ws) \o Concat(Tail(ws))

\* Least element of a non-empty set of naturals.
Min(S) == CHOOSE x \in S : \A y \in S : x <= y

\* Greatest element of a non-empty set of naturals.
Max(S) == CHOOSE x \in S : \A y \in S : x >= y

(***************************************************************************)
(* cleanCommand: remove the filler characters, collapse every white-space  *)
(* run to one space, trim.                                                 *)
(***************************************************************************)
\* .replace(/[请帮帮我]/g, '')
RemoveFillers(s) == SelectSeq(s, LAMBDA c : c \notin FillerChars)

\* .replace(/\s+/g, ' ')
RECURSIVE CollapseWhiteSpace(_)
CollapseWhiteSpace(s) ==
    IF s = << >> THEN << >>
    ELSE IF IsWhiteSpace(Head(s))
         THEN IF Len(s) >= 2 /\ IsWhiteSpace(s[2])
              THEN CollapseWhiteSpace(Tail(s))
              ELSE Space \o CollapseWhiteSpace(Tail(s))
         ELSE <<Head(s)>> \o CollapseWhiteSpace(Tail(s))

\* Variant of cleanCommand: the white space is collapsed before the filler
\* characters are removed.
cleanCommand_collapseFirst(command) ==
    trim(RemoveFillers(CollapseWhiteSpace(command)))

cleanCommand(command) == trim(CollapseWhiteSpace(RemoveFillers(command)))

(***************************************************************************)
(* The three template rules.  The regular expressions are not anchored:    *)
(* String.prototype.match returns the leftmost match, and at one position  *)
(* the backtracking matcher tries the alternatives in the order written,   *)
(* a lazy quantifier from the shortest span up, a greedy one from the      *)
(* longest down.                                                           *)
(***************************************************************************)
\* The value null (no rule matched).
Null == [isNull |-> TRUE]

\* (?:导航|去|到|前往|从) of the route rule
RouteLead == <<DaoHang, Qu, Dao, QianWang, Cong>>

\* Variant of RouteConnective: 导航 added to the connectives.
RouteConnective_withDaoHang == <<Dao, Zhi, Qu, QianWang, DaoHang>>

\* (?:到|至|去|前往) of the route rule
RouteConnective == <<Dao, Zhi, Qu, QianWang>>

\* (?:导航|去|到|前往) of the destination rule
DestinationLead == <<DaoHang, Qu, Dao, QianWang>>

\* (?:从) of the start rule
StartLead == <<Cong>>

\* (?:出发|开始) of the start rule
StartDeparture == <<ChuFa, KaiShi>>

\* t[j .. j+k-1] lies inside t and every character of it matches the dot.
DotRun(t, j, k) == /\ j + k - 1 <= Len(t)
                   /\ \A d \in 0..(k - 1) : Dot(t[j + d])

\* (.+) at the end of a pattern, from position p: the longest run of dots.
GreedyDots(t, p) ==
    SubSeq(t, p, Max({q \in p..Len(t) : DotRun(t, p, q - p + 1)}))

\* The continuations (.+?)(?:alts) from position j: <<k, c>> where the lazy
\* group has k characters and alternative c follows it; needTail says that
\* a (.+) must still find one character after the alternative.
LazyThenAlt(t, j, alts, needTail) ==
    {kc \in (1..Len(t)) \X (1..Len(alts)) :
        /\ DotRun(t, j, kc[1])
        /\ StartsWithAt(t, j + kc[1], alts[kc[2]])
        /\ needTail => DotRun(t, j + kc[1] + Len(alts[kc[2]]), 1)}

\* Variant of FirstLazyThenAlt: the first group is greedy, (.+) for (.+?),
\* and takes the longest span that a connective follows.
FirstLazyThenAlt_longest(t, j, alts, needTail) ==
    LET S == LazyThenAlt(t, j, alts, needTail)
        k == Max({kc[1] : kc \in S})
        c == Min({kc[2] : kc \in {x \in S : x[1] = k}})
    IN  <<k, c>>

\* The continuation the backtracking matcher finds first: shortest lazy
\* span, then the first alternative in the order written.
FirstLazyThenAlt(t, j, alts, needTail) ==
    LET S == LazyThenAlt(t, j, alts, needTail)
        k == Min({kc[1] : kc \in S})
        c == Min({kc[2] : kc \in {x \in S : x[1] = k}})
    IN  <<k, c>>

\* /(?:lead)(.+?)(?:alts)(.+)/ (needTail) or /(?:lead)(.+?)(?:alts)/:
\* the match array (groups[1], groups[2]), or Null.
MatchLazy(t, lead, alts, needTail) ==
    LET ok(i, a) == /\ StartsWithAt(t, i, lead[a])
                    /\ LazyThenAlt(t, i + Len(lead[a]), alts, needTail) # {}
        starts == {i \in 1..Len(t) : \E a \in 1..Len(lead) : ok(i, a)}
    IN  IF starts = {} THEN Null
        ELSE LET i  == Min(starts)
                 a  == Min({x \in 1..Len(lead) : ok(i, x)})
                 j  == i + Len(lead[a])
                 kc == FirstLazyThenAlt(t, j, alts, needTail)
                 p  == j + kc[1] + Len(alts[kc[2]])
             IN  [groups |-> <<SubSeq(t, j, j + kc[1] - 1),
                               IF needTail THEN GreedyDots(t, p) ELSE << >> >>]

\* Variant of MatchGreedy: the marker group made optional, /(?:lead)?(.+)/.
MatchGreedy_optionalLead(t, lead) ==
    LET ok(i, a) == /\ StartsWithAt(t, i, lead[a])
                    /\ DotRun(t, i + Len(lead[a]), 1)
        starts == {i \in 1..Len(t) : DotRun(t, i, 1)}
    IN  IF starts = {} THEN Null
        ELSE LET i    == Min(starts)
                 alts == {x \in 1..Len(lead) : ok(i, x)}
             IN  [groups |-> <<GreedyDots(t, IF alts = {} THEN i
                                             ELSE i + Len(lead[Min(alts)]))>>]

\* /(?:lead)(.+)/ : the match array (groups[1]), or Null.
MatchGreedy(t, lead) ==
    LET ok(i, a) == /\ StartsWithAt(t, i, lead[a])
                    /\ DotRun(t, i + Len(lead[a]), 1)
        starts == {i \in 1..Len(t) : \E a \in 1..Len(lead) : ok(i, a)}
    IN  IF starts = {} THEN Null
        ELSE LET i == Min(starts)
                 a == Min({x \in 1..Len(lead) : ok(i, x)})
             IN  [groups |-> <<GreedyDots(t, i + Len(lead[a]))>>]

\* The ordered rule list: type tag, command.match(pattern), extract(match).
RouteMatch(t) == MatchLazy(t, RouteLead, RouteConnective, TRUE)

RouteExtract(match) ==
    [start |-> trim(match.groups[1]), end |-> trim(match.groups[2])]

DestinationMatch(t) == MatchGreedy(t, DestinationLead)

\* Variant of DestinationExtract: the captured span is not trimmed.
DestinationExtract_noTrim(match) ==
    [start |-> CurrentLocation, end |-> match.groups[1]]

DestinationExtract(match) ==
    [start |-> CurrentLocation, end |-> trim(match.groups[1])]

StartMatch(t) == MatchLazy(t, StartLead, StartDeparture, FALSE)

\* Variant of StartExtract: the end is left empty, no sentinel stands in.
StartExtract_noSentinel(match) ==
    [start |-> trim(match.groups[1]), end |-> << >>]

StartExtract(match) ==
    [start |-> trim(match.groups[1]), end |-> UnspecifiedDestination]

\* Variant of navigationPatterns: the destination rule tried before the
\* route rule.
navigationPatterns_destinationFirst ==
    << [type |-> "destination_navigation"],
       [type |-> "route_navigation"],
       [type |-> "start_navigation"] >>

navigationPatterns ==
    << [type |-> "route_navigation"],
       [type |-> "destination_navigation"],
       [type |-> "start_navigation"] >>

\* command.match(pattern.pattern) for the rule carrying this type tag.
PatternMatch(pattern, t) ==
    CASE pattern.type = "route_navigation"       -> RouteMatch(t)
      [] pattern.type = "destination_navigation" -> DestinationMatch(t)
      [] pattern.type = "start_navigation"       -> StartMatch(t)

\* pattern.extract(match) for the rule carrying this type tag.
PatternExtract(pattern, match) ==
    CASE pattern.type = "route_navigation"       -> RouteExtract(match)
      [] pattern.type = "destination_navigation" -> DestinationExtract(match)
      [] pattern.type = "start_navigation"       -> StartExtract(match)

(***************************************************************************)
(* Entity normalizer.                                                      *)
(***************************************************************************)
\* The city alias table, in declaration order (Object.entries order).
locationKeywords ==
    << [standard |-> BeiJing,   variants |-> <<BeiJing, BeiJing \o Shi, JingCheng, DiDu>>],
       [standard |-> ShangHai,  variants |-> <<ShangHai, ShangHai \o Shi, ShenCheng, MoDu>>],
       [standard |-> GuangZhou, variants |-> <<GuangZhou, GuangZhou \o Shi, YangCheng>>],
       [standard |-> ShenZhen,  variants |-> <<ShenZhen, ShenZhen \o Shi, PengCheng>>],
       [standard |-> HangZhou,  variants |-> <<HangZhou, HangZhou \o Shi, HangCheng>>],
       [standard |-> ChengDu,   variants |-> <<ChengDu, ChengDu \o Shi, RongCheng>>],
       [standard |-> WuHan,     variants |-> <<WuHan, WuHan \o Shi, JiangCheng>>],
       [standard |-> XiAn,      variants |-> <<XiAn, XiAn \o Shi, ChangAn>>],
       [standard |-> NanJing,   variants |-> <<NanJing, NanJing \o Shi, JinLing>>],
       [standard |-> TianJin,   variants |-> <<TianJin, TianJin \o Shi>>] >>

\* s.replace(new RegExp(variants.join('|'), 'g'), standard) from position i:
\* at each position the alternatives are tried in the order of the list and
\* the first that matches is replaced; the scan resumes after the match.
RECURSIVE ReplaceVariantsFrom(_, _, _, _)
ReplaceVariantsFrom(s, i, variants, standard) ==
    IF i > Len(s) THEN << >>
    ELSE LET hit == {v \in 1..Len(variants) : StartsWithAt(s, i, variants[v])}
         IN  IF hit = {}
             THEN <<s[i]>> \o ReplaceVariantsFrom(s, i + 1, variants, standard)
             ELSE standard \o
                  ReplaceVariantsFrom(s, i + Len(variants[Min(hit)]), variants, standard)

ReplaceVariants(s, variants, standard) == ReplaceVariantsFrom(s, 1, variants, standard)

\* variants.some(variant => location.includes(variant))
SomeVariantIncluded(location, variants) ==
    \E v \in 1..Len(variants) : Includes(location, variants[v])

\* The destination-category alias table, in declaration order.
commonDestinations ==
    <<
       \* 机场: 机场, 飞机场, 航空港
       [standard |-> <<26426, 22330>>,
        variants |-> <<<<26426, 22330>>,
                       <<39134, 26426, 22330>>,
                       <<33322, 31354, 28207>>>>],
       \* 火车站: 火车站, 高铁站, 动车站
       [standard |-> <<28779, 36710, 31449>>,
        variants |-> <<<<28779, 36710, 31449>>,
                       <<39640, 38081, 31449>>,
                       <<21160, 36710, 31449>>>>],
       \* 汽车站: 汽车站, 客运站, 长途车站
       [standard |-> <<27773, 36710, 31449>>,
        variants |-> <<<<27773, 36710, 31449>>,
                       <<23458, 36816, 31449>>,
                       <<38271, 36884, 36710, 31449>>>>],
       \* 医院: 医院, 人民医院, 中心医院
       [standard |-> <<21307, 38498>>,
        variants |-> <<<<21307, 38498>>,
                       <<20154, 27665, 21307, 38498>>,
                       <<20013, 24515, 21307, 38498>>>>],
       \* 学校: 学校, 大学, 学院, 中学
       [standard |-> <<23398, 26657>>,
        variants |-> <<<<23398, 26657>>,
                       <<22823, 23398>>,
                       <<23398, 38498>>,
                       <<20013, 23398>>>>],
       \* 商场: 商场, 购物中心, 百货
       [standard |-> <<21830, 22330>>,
        variants |-> <<<<21830, 22330>>,
                       <<36141, 29289, 20013, 24515>>,
                       <<30334, 36135>>>>],
       \* 酒店: 酒店, 宾馆, 旅馆
       [standard |-> <<37202, 24215>>,
        variants |-> <<<<37202, 24215>>,
                       <<23486, 39302>>,
                       <<26053, 39302>>>>],
       \* 餐厅: 餐厅, 饭店, 餐馆
       [standard |-> <<39184, 21381>>,
        variants |-> <<<<39184, 21381>>,
                       <<39277, 24215>>,
                       <<39184, 39302>>>>],
       \* 加油站: 加油站, 油站
       [standard |-> <<21152, 27833, 31449>>,
        variants |-> <<<<21152, 27833, 31449>>,
                       <<27833, 31449>>>>],
       \* 家: 家, 家里, 回家
       [standard |-> <<23478>>,
        variants |-> <<<<23478>>,
                       <<23478, 37324>>,
                       <<22238, 23478>>>>],
       \* 公司: 公司, 单位, 上班
       [standard |-> <<20844, 21496>>,
        variants |-> <<<<20844, 21496>>,
                       <<21333, 20301>>,
                       <<19978, 29677>>>>] >>

\* Variant of normalizeLocation: the category found by the second loop is
\* applied, as the city is.
normalizeLocation_rewritesCategory(location) ==
    LET hit == {n \in 1..Len(locationKeywords) :
                   SomeVariantIncluded(location, locationKeywords[n].variants)}
        normalized == IF hit = {} THEN location
                      ELSE ReplaceVariants(location, locationKeywords[Min(hit)].variants,
                                           locationKeywords[Min(hit)].standard)
        category == {n \in 1..Len(commonDestinations) :
                        SomeVariantIncluded(location, commonDestinations[n].variants)}
    IN  IF category = {} THEN normalized
        ELSE ReplaceVariants(normalized, commonDestinations[Min(category)].variants,
                             commonDestinations[Min(category)].standard)

\* The first loop of normalizeLocation: the first city, in declaration
\* order, one of whose variants occurs in the location is rewritten, then
\* the loop breaks.  The second loop finds the first destination category
\* one of whose variants occurs in the location and breaks: it assigns
\* nothing, so the category does not enter the result.
normalizeLocation(location) ==
    LET hit == {n \in 1..Len(locationKeywords) :
                   SomeVariantIncluded(location, locationKeywords[n].variants)}
        normalized == IF hit = {} THEN location
                      ELSE ReplaceVariants(location, locationKeywords[Min(hit)].variants,
                                           locationKeywords[Min(hit)].standard)
        category == {n \in 1..Len(commonDestinations) :
                        SomeVariantIncluded(location, commonDestinations[n].variants)}
    IN  normalized

normalizeLocations(entities) ==
    [start |-> IF entities.start # << >> /\ entities.start # CurrentLocation
               THEN normalizeLocation(entities.start)
               ELSE entities.start,
     end   |-> IF entities.end # << >> /\ entities.end # UnspecifiedDestination
               THEN normalizeLocation(entities.end)
               ELSE entities.end]

(***************************************************************************)
(* parseNavigation, parse, validateResult.                                 *)
(***************************************************************************)
\* 从 X 导航到 Y / 导航到 Y / 从 X 出发
generateIntentDescription(type, entities) ==
    CASE type = "route_navigation" ->
            Cong \o Space \o entities.start \o Space \o DaoHang \o Dao \o Space \o entities.end
      [] type = "destination_navigation" ->
            DaoHang \o Dao \o Space \o entities.end
      [] type = "start_navigation" ->
            Cong \o Space \o entities.start \o Space \o ChuFa
      [] OTHER -> DaoHang \o <<25351, 20196>>

\* Confidence is kept in tenths: 9 stands for 0.9 and 1 for 0.1.
MatchedConfidence == 9

UnknownConfidence == 1

\* Variant of IntentOf: a confidence that depends on the rule.
IntentOf_confidencePerRule(pattern, match, command) ==
    LET normalizedEntities == normalizeLocations(PatternExtract(pattern, match))
    IN  [type            |-> pattern.type,
         confidence      |-> IF pattern.type = "route_navigation" THEN 9 ELSE 8,
         entities        |-> normalizedEntities,
         originalCommand |-> command,
         parsedIntent    |-> generateIntentDescription(pattern.type, normalizedEntities)]

\* The body of the if (match) branch: the intent built for a rule.
IntentOf(pattern, match, command) ==
    LET normalizedEntities == normalizeLocations(PatternExtract(pattern, match))
    IN  [type            |-> pattern.type,
         confidence      |-> MatchedConfidence,
         entities        |-> normalizedEntities,
         originalCommand |-> command,
         parsedIntent    |-> generateIntentDescription(pattern.type, normalizedEntities)]

\* The IntentParser object as its constructor leaves it: the rule list, the
\* lastIndex property of the RegExp object of each rule, the two alias
\* tables.
IntentParserObject ==
    [navigationPatterns |-> navigationPatterns,
     lastIndex          |-> [n \in 1..Len(navigationPatterns) |-> 0],
     locationKeywords   |-> locationKeywords,
     commonDestinations |-> commonDestinations]

\* Variant of RegExpBuiltinExec: the expression carries the g flag and is
\* run the way RegExp.prototype.exec runs it, from lastIndex, which it then
\* sets to the end of the match, or to 0 when nothing matched.
RegExpBuiltinExec_global(pattern, S, lastIndex) ==
    LET match == PatternMatch(pattern, SubSeq(S, lastIndex + 1, Len(S)))
    IN  [match     |-> match,
         lastIndex |-> IF match = Null THEN 0 ELSE Len(S)]

\* command.match(pattern.pattern) on the RegExp object of a rule.  None of
\* the three expressions has the g or the y flag: the search starts at the
\* beginning of S whatever lastIndex holds and lastIndex is not written.
RegExpBuiltinExec(pattern, S, lastIndex) ==
    [match |-> PatternMatch(pattern, S), lastIndex |-> lastIndex]

\* parseNavigation on the parser object p.  The loop over the rule list: the
\* rules are tried in the order of the list and the first that matches
\* decides.  result is the intent, or Null; parser is the object after the
\* call.
ParseNavigationOn(p, command) ==
    LET exec(n) == RegExpBuiltinExec(p.navigationPatterns[n], command, p.lastIndex[n])
        hit     == {n \in 1..Len(p.navigationPatterns) : exec(n).match # Null}
        tried   == IF hit = {} THEN Len(p.navigationPatterns) ELSE Min(hit)
    IN  [result |-> IF hit = {} THEN Null
                    ELSE IntentOf(p.navigationPatterns[tried], exec(tried).match, command),
         parser |-> [p EXCEPT !.lastIndex =
                        [n \in DOMAIN @ |-> IF n <= tried THEN exec(n).lastIndex ELSE @[n]]]]

parseNavigation(command) == ParseNavigationOn(IntentParserObject, command).result

\* The empty object {}.
EmptyEntities == [x \in {} |-> << >>]

\* Variant of parse: the fallback for an unrecognized command is missing.
parse_noFallback(command) == parseNavigation(cleanCommand(command))

\* parse on the parser object p: the intent returned and the object after
\* the call.
ParseOn(p, command) ==
    LET cleanedCommand   == cleanCommand(command)
        navigationResult == ParseNavigationOn(p, cleanedCommand)
    IN  [result |-> IF navigationResult.result # Null THEN navigationResult.result
                    ELSE [type            |-> "unknown",
                          confidence      |-> UnknownConfidence,
                          entities        |-> EmptyEntities,
                          originalCommand |-> command,
                          parsedIntent    |-> UnrecognizedText],
         parser |-> navigationResult.parser]

parse(command) == ParseOn(IntentParserObject, command).result

\* A string is falsy exactly when it is empty; an absent field is undefined.
Falsy(entities, field) == field \notin DOMAIN entities \/ entities[field] = << >>

\* Variant of validateResult: a start_navigation intent is rejected for its
\* missing destination.
validateResult_requiresDestination(result) ==
    IF result.type = "route_navigation"
         /\ (Falsy(result.entities, "start") \/ Falsy(result.entities, "end"))
    THEN [valid |-> FALSE, error |-> "missing_start_or_end"]
    ELSE IF result.type \in {"destination_navigation", "start_navigation"}
              /\ (Falsy(result.entities, "end")
                  \/ result.entities.end = UnspecifiedDestination)
    THEN [valid |-> FALSE, error |-> "missing_destination"]
    ELSE [valid |-> TRUE]

\* The reason strings are named in ASCII:
\*   "missing_start_or_end" is 缺少起点或终点信息,
\*   "missing_destination"  is 缺少目的地信息.
validateResult(result) ==
    IF result.type = "route_navigation"
         /\ (Falsy(result.entities, "start") \/ Falsy(result.entities, "end"))
    THEN [valid |-> FALSE, error |-> "missing_start_or_end"]
    ELSE IF result.type = "destination_navigation" /\ Falsy(result.entities, "end")
    THEN [valid |-> FALSE, error |-> "missing_destination"]
    ELSE [valid |-> TRUE]

(***************************************************************************)
(* NavigationService: validation of the intent, URL templating, the        *)
(* browser launch.                                                         *)
(***************************************************************************)
\* 'https://map.baidu.com/dir/{start}/@{end}/'
BaiduNavigationUrl ==
    <<104, 116, 116, 112, 115, 58, 47, 47, 109, 97, 112, 46, 98, 97, 105,
      100, 117, 46, 99, 111, 109, 47, 100, 105, 114, 47, 123, 115, 116, 97,
      114, 116, 125, 47, 64, 123, 101, 110, 100, 125, 47>>

\* 'https://uri.amap.com/navigation?from={start}&to={end}'
GaodeNavigationUrl ==
    <<104, 116, 116, 112, 115, 58, 47, 47, 117, 114, 105, 46, 97, 109, 97,
      112, 46, 99, 111, 109, 47, 110, 97, 118, 105, 103, 97, 116, 105, 111,
      110, 63, 102, 114, 111, 109, 61, 123, 115, 116, 97, 114, 116, 125,
      38, 116, 111, 61, 123, 101, 110, 100, 125>>

\* '{start}' and '{end}', the placeholders of the templates
StartPlaceholder == <<123, 115, 116, 97, 114, 116, 125>>

EndPlaceholder == <<123, 101, 110, 100, 125>>

\* 'mypos' and 'here', the geolocation words of the two maps
MyPos == <<109, 121, 112, 111, 115>>

Here == <<104, 101, 114, 101>>

\* 'undefined', the text String(undefined)
UndefinedText == <<117, 110, 100, 101, 102, 105, 110, 101, 100>>

\* this.supportedMaps, by map type
supportedMaps ==
    [baidu |-> [navigationUrl |-> BaiduNavigationUrl],
     gaode |-> [navigationUrl |-> GaodeNavigationUrl]]

\* this.defaultMap = 'baidu' in the constructor
DefaultMapAtConstruction == "baidu"

\* The reason strings are named in ASCII:
\*   "invalid_intent"      is 无效的导航意图,
\*   "route_needs_start"   is 路线导航需要指定起点,
\*   "route_needs_end"     is 路线导航需要指定终点,
\*   "destination_needs_end" is 目的地导航需要指定终点.
validateNavigationIntent(i) ==
    IF i = Null \/ "entities" \notin DOMAIN i
    THEN [valid |-> FALSE, error |-> "invalid_intent"]
    ELSE IF i.type = "route_navigation"
              /\ (Falsy(i.entities, "start") \/ i.entities.start = CurrentLocation)
    THEN [valid |-> FALSE, error |-> "route_needs_start"]
    ELSE IF i.type = "route_navigation"
              /\ (Falsy(i.entities, "end") \/ i.entities.end = UnspecifiedDestination)
    THEN [valid |-> FALSE, error |-> "route_needs_end"]
    ELSE IF i.type = "destination_navigation"
              /\ (Falsy(i.entities, "end") \/ i.entities.end = UnspecifiedDestination)
    THEN [valid |-> FALSE, error |-> "destination_needs_end"]
    ELSE [valid |-> TRUE]

\* The characters encodeURIComponent leaves alone: A-Z a-z 0-9 - _ . ! ~ * ' ( )
IsUriUnreserved(c) ==
    \/ c \in 65..90
    \/ c \in 97..122
    \/ c \in 48..57
    \/ c \in {45, 95, 46, 33, 126, 42, 39, 40, 41}

\* One hexadecimal digit, upper case.
HexDigit(d) == IF d < 10 THEN 48 + d ELSE 55 + d

\* %HH for one octet.
PercentOctet(b) == <<37, HexDigit(b \div 16), HexDigit(b % 16)>>

\* The UTF-8 octets of one code point, each percent-encoded.
PercentUtf8(c) ==
    IF c < 128 THEN PercentOctet(c)
    ELSE IF c < 2048
         THEN PercentOctet(192 + (c \div 64)) \o PercentOctet(128 + (c % 64))
    ELSE IF c < 65536
         THEN PercentOctet(224 + (c \div 4096))
              \o PercentOctet(128 + ((c \div 64) % 64))
              \o PercentOctet(128 + (c % 64))
    ELSE PercentOctet(240 + (c \div 262144))
         \o PercentOctet(128 + ((c \div 4096) % 64))
         \o PercentOctet(128 + ((c \div 64) % 64))
         \o PercentOctet(128 + (c % 64))

IsHighSurrogate(c) == c \in 55296..56319

IsLowSurrogate(c) == c \in 56320..57343

\* encodeURIComponent throws URIError on a surrogate that is not paired.
HasLoneSurrogate(s) ==
    \E i \in 1..Len(s) :
        \/ IsHighSurrogate(s[i]) /\ (i = Len(s) \/ ~IsLowSurrogate(s[i + 1]))
        \/ IsLowSurrogate(s[i]) /\ (i = 1 \/ ~IsHighSurrogate(s[i - 1]))

\* encodeURIComponent of a string without lone surrogates.
RECURSIVE encodeURIComponent(_)
encodeURIComponent(s) ==
    IF s = << >> THEN << >>
    ELSE IF IsUriUnreserved(Head(s)) THEN <<Head(s)>> \o encodeURIComponent(Tail(s))
    ELSE IF IsHighSurrogate(Head(s))
         THEN PercentUtf8(65536 + (Head(s) - 55296) * 1024 + (s[2] - 56320))
              \o encodeURIComponent(Tail(Tail(s)))
    ELSE PercentUtf8(Head(s)) \o encodeURIComponent(Tail(s))

\* The text of an entity as encodeURIComponent sees it: an absent field is
\* undefined and is converted to the text 'undefined'.
LocationText(entities, field) ==
    IF field \in DOMAIN entities THEN entities[field] ELSE UndefinedText

\* Variant of encodeLocation: the current-location sentinel is encoded as
\* any other text.
encodeLocation_noGeolocation(entities, field, mapType) ==
    encodeURIComponent(LocationText(entities, field))

\* encodeLocation(location, mapType) for the field of entities
encodeLocation(entities, field, mapType) ==
    IF field \in DOMAIN entities /\ entities[field] = CurrentLocation
    THEN IF mapType = "baidu" THEN MyPos ELSE Here
    ELSE encodeURIComponent(LocationText(entities, field))

\* url.replace(placeholder, text) with a string pattern: the first
\* occurrence is replaced.  (text never contains '$': encodeURIComponent
\* escapes it.)
ReplaceFirst(url, placeholder, text) ==
    LET at == {i \in 1..Len(url) : StartsWithAt(url, i, placeholder)}
    IN  IF at = {} THEN url
        ELSE SubSeq(url, 1, Min(at) - 1) \o text
             \o SubSeq(url, Min(at) + Len(placeholder), Len(url))

generateNavigationUrl(entities, mapType) ==
    ReplaceFirst(
        ReplaceFirst(supportedMaps[mapType].navigationUrl, StartPlaceholder,
                     encodeLocation(entities, "start", mapType)),
        EndPlaceholder, encodeLocation(entities, "end", mapType))

\* generateNavigationUrl throws (URIError) when a location it encodes has a
\* lone surrogate.
GenerateNavigationUrlThrows(entities) ==
    \E field \in {"start", "end"} :
        /\ field \in DOMAIN entities
        /\ entities[field] # CurrentLocation
        /\ HasLoneSurrogate(entities[field])

(***************************************************************************)
(* AutomationClient (src/src/mcp/automationClient.js) and the MCP client   *)
(* it calls (src/src/config/mcp.js).  A value that a call throws is        *)
(* modelled as a record with the field threw.  The timestamp of a result   *)
(* is left out: it is the clock's.                                         *)
(***************************************************************************)
Thrown(message) == [threw |-> TRUE, message |-> message]

IsThrown(x) == "threw" \in DOMAIN x

\* this.tools: the six supported actions
tools ==
    {"open_browser", "navigate_to_url", "type_text", "click_element",
     "wait_for_element", "take_screenshot"}

\* The parameters object {}.
NoParameters == [x \in {} |-> << >>]

\* `${parameters.key}`: the text of the parameter, 'undefined' when the
\* object has no such key.
ParameterText(parameters, key) ==
    IF key \in DOMAIN parameters THEN parameters[key] ELSE UndefinedText

\* mockExecuteAction(action, parameters), after its delay: the simulated
\* result of a supported action; the default case throws
\* 不支持的自动化操作: <action>, named "unsupported_action".
\* The fixed texts of the results, as code units:
\*   模拟: 浏览器已打开
\*   模拟: 已导航到 (with its trailing space)
\*   模拟: 已输入文本 " (up to the opening quote)
\*   模拟: 已点击元素 (with its trailing space)
\*   模拟: 已等待元素 (with its trailing space)
\*   模拟: 截图已保存
mockExecuteAction(action, parameters) ==
    CASE action = "open_browser" ->
            [success |-> TRUE, action |-> action, simulated |-> TRUE,
             result |->
                 <<27169, 25311, 58, 32, 27983, 35272, 22120, 24050, 25171, 24320>>]
      [] action = "navigate_to_url" ->
            [success |-> TRUE, action |-> action, simulated |-> TRUE,
             result |->
                 <<27169, 25311, 58, 32, 24050, 23548, 33322, 21040, 32>> \o ParameterText(parameters, "url")]
      [] action = "type_text" ->
            [success |-> TRUE, action |-> action, simulated |-> TRUE,
             result |->
                 <<27169, 25311, 58, 32, 24050, 36755, 20837, 25991, 26412, 32, 34>> \o ParameterText(parameters, "text") \o <<34>>]
      [] action = "click_element" ->
            [success |-> TRUE, action |-> action, simulated |-> TRUE,
             result |->
                 <<27169, 25311, 58, 32, 24050, 28857, 20987, 20803, 32032, 32>> \o ParameterText(parameters, "selector")]
      [] action = "wait_for_element" ->
            [success |-> TRUE, action |-> action, simulated |-> TRUE,
             result |->
                 <<27169, 25311, 58, 32, 24050, 31561, 24453, 20803, 32032, 32>> \o ParameterText(parameters, "selector")]
      [] action = "take_screenshot" ->
            [success |-> TRUE, action |-> action, simulated |-> TRUE,
             result |->
                 <<27169, 25311, 58, 32, 25130, 22270, 24050, 20445, 23384>>]
      [] OTHER -> Thrown("unsupported_action")

\* The MCPClient object: its constructor sets client and transport to null
\* and nothing assigns them afterwards (connect returns before it would).
mcpClient == [client |-> Null, transport |-> Null]

\* MCPClient.connect(): simulation mode, it returns false.
connect == FALSE

\* MCPClient.callTool(toolName, args): without a client it throws
\* MCP 客户端未连接, named "mcp_not_connected".
callTool(toolName, args) ==
    IF mcpClient.client = Null THEN Thrown("mcp_not_connected")
    ELSE [tool |-> toolName, arguments |-> args]

\* A record with one more field.
WithField(record, field, value) ==
    [f \in DOMAIN record \cup {field} |-> IF f = field THEN value ELSE record[f]]

\* Variant of executeAction: no catch block, what the first attempt throws
\* leaves the function.
executeAction_noCatch(isConnected, action, parameters) ==
    IF ~isConnected THEN mockExecuteAction(action, parameters)
    ELSE LET result == callTool(action, parameters)
         IN  IF IsThrown(result) THEN result
             ELSE [success |-> TRUE, action |-> action, result |-> result]

\* executeAction(action, parameters) on a client whose connected field is
\* isConnected.  The try block: the simulation when not connected, else the
\* MCP tool.  The catch block: the simulation again, marked fallback; when
\* that throws too, a failure with both messages.
executeAction(isConnected, action, parameters) ==
    LET attempt ==
            IF ~isConnected THEN mockExecuteAction(action, parameters)
            ELSE LET result == callTool(action, parameters)
                 IN  IF IsThrown(result) THEN result
                     ELSE [success |-> TRUE, action |-> action, result |-> result]
    IN  IF ~IsThrown(attempt) THEN attempt
        ELSE LET mockResult == mockExecuteAction(action, parameters)
             IN  IF IsThrown(mockResult)
                 THEN [success       |-> FALSE,
                       action        |-> action,
                       error         |-> attempt.message,
                       fallbackError |-> mockResult.message]
                 ELSE WithField(mockResult, "fallback", TRUE)

\* '.route-info'
RouteInfoSelector == <<46, 114, 111, 117, 116, 101, 45, 105, 110, 102, 111>>

\* The steps of executeNavigationAutomation for a navigation URL.
AutomationSteps(url) ==
    << [action |-> "open_browser",     parameters |-> NoParameters],
       [action |-> "navigate_to_url",  parameters |-> [url |-> url]],
       [action |-> "wait_for_element",
        parameters |-> [selector |-> RouteInfoSelector, timeout |-> 5000]] >>

(***************************************************************************)
(* The commands explored.  A command is the concatenation of at most       *)
(* MaxTokens words of Vocabulary, or one of the fixed Scenarios (the       *)
(* commands of the documentation and the test list, and commands that      *)
(* carry a sentinel or a rarer marker).                                    *)
(***************************************************************************)
MaxTokens == 3

Vocabulary == {DaoHang, Qu, Dao, QianWang, Cong, ChuFa, Qing, Space,
               BeiJing, Shi, Jia}

RECURSIVE TokenStrings(_)
TokenStrings(n) ==
    IF n = 0 THEN {<< >>}
    ELSE LET shorter == TokenStrings(n - 1)
         IN  shorter \cup {s \o w : s \in shorter, w \in Vocabulary}

Scenarios ==
    { DaoHang \o Cong \o BeiJing \o Dao \o ShangHai,
      Qu \o TianAnMenGuangChang,
      Cong \o GongSi \o DaoHang \o HuiJia,
      SuiBianShuo,
      Qing \o Bang \o Wo \o DaoHang \o Cong \o BeiJing \o Shi \o Dao \o ShangHai \o Shi,
      Cong \o BeiJing \o Dao \o ShangHai,
      Cong \o BeiJing \o Dao \o UnspecifiedDestination,
      Cong \o CurrentLocation \o Dao \o ShangHai,
      Cong \o CurrentLocation \o Dao \o UnspecifiedDestination,
      Qu \o UnspecifiedDestination,
      Qing \o Qu \o UnspecifiedDestination,
      Cong \o Space \o Dao \o ShangHai,
      QianWang \o DiDu,
      DaoHang \o Dao \o TianAnMenGuangChang,
      Cong \o Jia \o Zhi \o MoDu \o JingCheng,
      Cong \o GongSi \o KaiShi,
      Cong \o DiDu \o QianWang \o BeiJing \o BeiJing \o Shi,
      Cong \o NanJing \o JingCheng \o Qu \o JinLing \o JingCheng,
      Wo \o IdeographicSpace \o Qu \o LineFeed \o Space \o HuiJia \o Space,
      Cong \o Jia \o LineFeed \o Dao \o GongSi,
      Cong \o BeiJing \o Dao \o ShangHai \o Dao \o GuangZhou,
      Cong \o Jia \o Qu \o GongSi \o Space \o QianWang \o DiDu \o Zhi \o MoDu,
      Cong \o Space \o BeiJing \o ChuFa,
      Qu \o BeiJing \o Dao \o Jia }

Commands == TokenStrings(MaxTokens) \cup Scenarios

(***************************************************************************)
(* The state machine: one navigation_command event goes through            *)
(* NavigationServer.handleNavigationCommand.  The handler is split where   *)
(* the claims look at it (after parse, after validateResult) and where it  *)
(* awaits (the browser launch, the automation).                            *)
(*                                                                         *)
(*   commandType       what data.command is: "string", or the kind of a    *)
(*                     value that is not a string, or "no_data" when the   *)
(*                     payload itself is missing                           *)
(*   command           the text of data.command when it is a string        *)
(*   intent            the result of parse, Null before                    *)
(*   validation        the result of validateResult, Null before           *)
(*   calls             the operations invoked so far, in order             *)
(*   events            the events emitted to the socket so far, in order   *)
(*   navigationUrl     the URL generateNavigationUrl returned, empty before*)
(*   navigationResult  what executeNavigation resolved to, Null before     *)
(*   mapType           the map executeNavigation is called for: the        *)
(*                     server passes none, which gives this.defaultMap     *)
(*   defaultMap        this.defaultMap of the navigation service           *)
(*   connected         this.connected of the automation client             *)
(*   initializing      the calls of initialize() that wait at their await  *)
(*   disconnecting     the calls of disconnect() that wait at their await  *)
(*   automation        the run of the automation client: the navigation    *)
(*                     data, the step results, the executeAction awaited,  *)
(*                     what was returned; Null before                      *)
(*                                                                         *)
(* Three more variables serve the specifications of the pure functions     *)
(* below (SpecClean, SpecNormalize) and keep their initial value here:     *)
(*   cleanings         the successive results of cleanCommand              *)
(*   rawEntities       the entities handed to normalizeLocations           *)
(*   normalized        what normalizeLocations returned, Null before       *)
(*   renormalized      what normalizeLocations returned for normalized     *)
(***************************************************************************)
VARIABLES command, commandType, pc, intent, validation, calls, events,
          navigationUrl, navigationResult, cleanings, rawEntities, normalized,
          parser, history, allocated,
          renormalized,
          mapType,
          connected, automation,
          defaultMap,
          initializing, disconnecting

vars == <<command, commandType, pc, intent, validation, calls, events,
          navigationUrl, navigationResult, cleanings, rawEntities, normalized,
          parser, history, allocated,
          renormalized,
          mapType,
          connected, automation,
          defaultMap,
          initializing, disconnecting>>

\* The kinds of data.command that are not strings.
NonStringTypes == {"null", "undefined", "number", "object"}

\* socket.emit('status_update', ...): the three status messages.
StatusUpdate(message) == [event |-> "status_update", message |-> message]

\* socket.emit('error', { message })
ErrorEvent(message) == [event |-> "error", message |-> message]

\* socket.emit('command_response', ...)
CommandResponse(result) ==
    [event           |-> "command_response",
     originalCommand |-> command,
     parsedIntent    |-> intent.parsedIntent,
     status          |-> "success",
     details         |-> result.details]

\* The event has arrived; nothing has been computed yet.
Init ==
    /\ \/ commandType = "string" /\ command \in Commands
       \/ commandType \in NonStringTypes \cup {"no_data"} /\ command = << >>
    /\ pc = "received"
    /\ intent = Null
    /\ validation = Null
    /\ calls = << >>
    /\ events = << >>
    /\ navigationUrl = << >>
    /\ navigationResult = Null
    /\ cleanings = << >>
    /\ initializing = 0
    /\ disconnecting = 0
    /\ defaultMap = DefaultMapAtConstruction
    /\ connected = FALSE
    /\ automation = Null
    /\ mapType = DefaultMapAtConstruction
    /\ renormalized = Null
    /\ parser = IntentParserObject
    /\ history = << >>
    /\ allocated = 0
    /\ rawEntities = Null
    /\ normalized = Null

\* const { command, type } = data; the first status update;
\* const intent = this.intentParser.parse(command).
\* Destructuring a missing payload throws, and so does command.replace in
\* cleanCommand when command is not a string: handleNavigationCommand
\* rejects and the handler of the event, suspended at its await, has not
\* caught it yet.
ParseCommand ==
    /\ pc = "received"
    /\ IF commandType = "string"
       THEN /\ intent' = parse(command)
            /\ calls' = Append(calls, "parse")
            /\ events' = Append(events, StatusUpdate("processing"))
            /\ pc' = "parsed"
       ELSE IF commandType = "no_data"
       THEN /\ pc' = "thrown"
            /\ UNCHANGED <<intent, calls, events>>
       ELSE /\ calls' = Append(calls, "parse")
            /\ events' = Append(events, StatusUpdate("processing"))
            /\ pc' = "thrown"
            /\ UNCHANGED intent
    /\ UNCHANGED <<initializing, disconnecting, defaultMap, connected, automation, mapType, renormalized, parser, history, allocated, cleanings, rawEntities, normalized, command, commandType, validation, navigationUrl, navigationResult>>

\* catch (error) { socket.emit('error', ...) } of the handler of the event,
\* resumed with the rejection of handleNavigationCommand.
HandlerCatches ==
    /\ pc = "thrown"
    /\ events' = Append(events, ErrorEvent("handler_failed"))
    /\ pc' = "done"
    /\ UNCHANGED <<initializing, disconnecting, defaultMap, connected, automation, mapType, renormalized, parser, history, allocated, cleanings, rawEntities, normalized, command, commandType, intent, calls, validation, navigationUrl, navigationResult>>

\* const validation = this.intentParser.validateResult(intent)
ValidateIntent ==
    /\ pc = "parsed"
    /\ validation' = validateResult(intent)
    /\ calls' = Append(calls, "validateResult")
    /\ pc' = "validated"
    /\ UNCHANGED <<initializing, disconnecting, defaultMap, connected, automation, mapType, renormalized, parser, history, allocated, cleanings, rawEntities, normalized, command, commandType, intent, events, navigationUrl, navigationResult>>

\* if (!validation.valid) { socket.emit('error', ...); return; }
RejectInvalid ==
    /\ pc = "validated"
    /\ ~validation.valid
    /\ events' = Append(events, ErrorEvent(validation.error))
    /\ pc' = "done"
    /\ UNCHANGED <<initializing, disconnecting, defaultMap, connected, automation, mapType, renormalized, parser, history, allocated, cleanings, rawEntities, normalized, command, commandType, intent, validation, calls,
                   navigationUrl, navigationResult>>

\* The failure executeNavigation resolves to from its catch block.
NavigationFailure(error) == [success |-> FALSE, error |-> error]

\* Property names every object literal inherits from Object.prototype:
\* this.supportedMaps[name] is a function for them, not undefined.
InheritedProperties ==
    {"constructor", "toString", "valueOf", "hasOwnProperty", "isPrototypeOf",
     "propertyIsEnumerable", "toLocaleString", "__defineGetter__",
     "__defineSetter__", "__lookupGetter__", "__lookupSetter__", "__proto__"}

\* this.supportedMaps[m]: the entry of the map, an inherited property (it is
\* truthy and has no navigationUrl), or undefined.
SupportedMapsLookup(m) ==
    IF m \in DOMAIN supportedMaps THEN supportedMaps[m]
    ELSE IF m \in InheritedProperties THEN [inherited |-> TRUE]
    ELSE Null

\* executeNavigation(intent, mapType) up to its await: the intent check, the
\* map-type check, the URL, the call of openMap.  Every throw is inside the
\* try block and becomes a failure result.  The error messages are named in
\* ASCII:
\*   "unsupported_map"     is 不支持的地图类型: <mapType>,
\*   "uri_malformed"       is the message of the URIError of encodeURIComponent,
\*   "cannot_read_replace" is the message of the TypeError of url.replace on
\*                         the undefined navigationUrl of an inherited property.
executeNavigation(m) ==
    /\ mapType' = m
    /\ LET check == validateNavigationIntent(intent)
        IN  IF ~check.valid
            THEN /\ calls' = calls \o <<"executeNavigation", "validateNavigationIntent">>
                 /\ navigationResult' = NavigationFailure(check.error)
                 /\ navigationUrl' = navigationUrl
                 /\ pc' = "executed"
            ELSE IF SupportedMapsLookup(m) = Null
            THEN /\ calls' = calls \o <<"executeNavigation", "validateNavigationIntent">>
                 /\ navigationResult' = NavigationFailure("unsupported_map")
                 /\ navigationUrl' = navigationUrl
                 /\ pc' = "executed"
            ELSE IF GenerateNavigationUrlThrows(intent.entities)
            THEN /\ calls' = calls \o <<"executeNavigation", "validateNavigationIntent",
                                        "generateNavigationUrl">>
                 /\ navigationResult' = NavigationFailure("uri_malformed")
                 /\ navigationUrl' = navigationUrl
                 /\ pc' = "executed"
            ELSE IF m \notin DOMAIN supportedMaps
            THEN /\ calls' = calls \o <<"executeNavigation", "validateNavigationIntent",
                                        "generateNavigationUrl">>
                 /\ navigationResult' = NavigationFailure("cannot_read_replace")
                 /\ navigationUrl' = navigationUrl
                 /\ pc' = "executed"
            ELSE /\ calls' = calls \o <<"executeNavigation", "validateNavigationIntent",
                                        "generateNavigationUrl", "openMap">>
                 /\ navigationUrl' = generateNavigationUrl(intent.entities, m)
                 /\ navigationResult' = navigationResult
                 /\ pc' = "opening"

\* The second status update and the call
\* this.navigationService.executeNavigation(intent): the default parameter
\* reads this.defaultMap at the call.
ExecuteNavigationBody ==
    /\ events' = Append(events, StatusUpdate("recognized"))
    /\ executeNavigation(defaultMap)
    /\ UNCHANGED <<initializing, disconnecting, defaultMap, connected, automation, renormalized, parser, history, allocated, cleanings, rawEntities, normalized, command, commandType, intent, validation>>

\* Variant of ExecuteNavigation: the intent is handed to the navigation
\* service without looking at validation.valid.
ExecuteNavigation_withoutValidCheck ==
    /\ pc = "validated"
    /\ ExecuteNavigationBody

\* Reached only past the return of the validation failure.
ExecuteNavigation ==
    /\ pc = "validated"
    /\ validation.valid
    /\ ExecuteNavigationBody

\* await open(url) resolves: executeNavigation returns success.
OpenMapSucceeds ==
    /\ pc = "opening"
    /\ navigationResult' =
          [success |-> TRUE,
           details |-> [entities |-> intent.entities,
                        map      |-> mapType,
                        url      |-> navigationUrl]]
    /\ pc' = "executed"
    /\ UNCHANGED <<initializing, disconnecting, defaultMap, connected, automation, mapType, renormalized, parser, history, allocated, cleanings, rawEntities, normalized, command, commandType, intent, validation, calls, events,
                   navigationUrl>>

\* Variant of OpenMapFails: the error openMap rethrows is not caught and the
\* promise of executeNavigation rejects.
OpenMapFails_rejects ==
    /\ pc = "opening"
    /\ pc' = "rejected"
    /\ UNCHANGED <<initializing, disconnecting, defaultMap, connected, automation, mapType, renormalized, parser, history, allocated, cleanings, rawEntities, normalized, command, commandType, intent, validation, calls, events,
                   navigationUrl, navigationResult>>

\* await open(url) rejects: openMap rethrows, executeNavigation catches.
OpenMapFails ==
    /\ pc = "opening"
    /\ navigationResult' = NavigationFailure("cannot_open_map")
    /\ pc' = "executed"
    /\ UNCHANGED <<initializing, disconnecting, defaultMap, connected, automation, mapType, renormalized, parser, history, allocated, cleanings, rawEntities, normalized, command, commandType, intent, validation, calls, events,
                   navigationUrl>>

\* The argument of executeNavigationAutomation in handleNavigationCommand:
\* { mapType, navigationUrl, start, end }.  An entity the intent does not
\* have is undefined there; the record leaves the field out.
NavigationData ==
    [f \in {"mapType", "navigationUrl"} \cup DOMAIN intent.entities |->
        IF f = "mapType" THEN defaultMap
        ELSE IF f = "navigationUrl" THEN navigationResult.details.url
        ELSE intent.entities[f]]

\* executeNavigationAutomation has been entered with navigationData: no
\* step has run, no executeAction is awaited, nothing is returned yet.
\* reads keeps, for every executeAction that returned, the value of
\* this.connected it read when it was entered.
AutomationEntered(navigationData) ==
    [navigationData |-> navigationData,
     results        |-> << >>,
     reads          |-> << >>,
     awaiting       |-> Null,
     result         |-> Null]

\* Variant of Respond: command_response is emitted whatever executeNavigation
\* returned.
Respond_alwaysResponds ==
    /\ pc = "executed"
    /\ events' = events \o
          <<[event |-> "command_response", originalCommand |-> command,
             parsedIntent |-> intent.parsedIntent, status |-> "success"],
            StatusUpdate("navigation_succeeded")>>
    /\ calls' = Append(calls, "executeNavigationAutomation")
    /\ automation' = AutomationEntered([mapType |-> defaultMap,
                                        navigationUrl |-> navigationUrl])
    /\ pc' = "automating"
    /\ UNCHANGED <<initializing, disconnecting, defaultMap, connected, mapType, renormalized, parser, history, allocated, cleanings, rawEntities, normalized, command, commandType, intent, validation, navigationUrl,
                   navigationResult>>

\* if (navigationResult.success) { command_response; status update; the
\* automation is called } else { error }
Respond ==
    /\ pc = "executed"
    /\ IF navigationResult.success
       THEN /\ events' = events \o <<CommandResponse(navigationResult),
                                     StatusUpdate("navigation_succeeded")>>
            /\ calls' = Append(calls, "executeNavigationAutomation")
            /\ automation' = AutomationEntered(NavigationData)
            /\ pc' = "automating"
       ELSE /\ events' = Append(events, ErrorEvent(navigationResult.error))
            /\ calls' = calls
            /\ automation' = automation
            /\ pc' = "done"
    /\ UNCHANGED <<initializing, disconnecting, defaultMap, connected, mapType, renormalized, parser, history, allocated, cleanings, rawEntities, normalized, command, commandType, intent, validation, navigationUrl,
                   navigationResult>>

\* What executeNavigationAutomation returns after the step results so far,
\* the last of which is new: the failure of its catch block when that step
\* has success false (the message 自动化步骤失败: <action> is named
\* "step_failed"), the success when it was the last step, nothing yet (Null)
\* otherwise.  The navigation of the success has the start and end the data
\* has.
AutomationResult(navigationData, results) ==
    LET last == results[Len(results)]
    IN  IF ~last.success
        THEN [success    |-> FALSE,
              error      |-> <<"step_failed", last.action>>,
              navigation |-> navigationData]
        ELSE IF Len(results) = Len(AutomationSteps(navigationData.navigationUrl))
        THEN [success    |-> TRUE,
              steps      |-> results,
              navigation |->
                  [f \in {"map", "url"} \cup (DOMAIN navigationData \cap {"start", "end"}) |->
                      IF f = "map" THEN navigationData.mapType
                      ELSE IF f = "url" THEN navigationData.navigationUrl
                      ELSE navigationData[f]]]
        ELSE Null

\* The loop of executeNavigationAutomation calls executeAction for the next
\* step: executeAction reads this.connected, then awaits (the timer of the
\* simulation or, connected, the rejected callTool and then that timer).
\* Other callbacks run while it waits.
EnterExecuteAction ==
    /\ pc = "automating"
    /\ automation.result = Null
    /\ automation.awaiting = Null
    /\ LET steps == AutomationSteps(automation.navigationData.navigationUrl)
           step  == steps[Len(automation.results) + 1]
       IN  automation' =
               [automation EXCEPT
                   !.awaiting = [action     |-> step.action,
                                 parameters |-> step.parameters,
                                 connected  |-> connected]]
    /\ calls' = Append(calls, "executeAction")
    /\ UNCHANGED <<initializing, disconnecting, pc, defaultMap, connected, mapType, renormalized, parser, history, allocated, cleanings, rawEntities, normalized, command, commandType, intent, validation, events,
                   navigationUrl, navigationResult>>

\* The awaited executeAction returns: the loop pushes its result and throws
\* on success false; after the last step, or from the catch block,
\* executeNavigationAutomation returns.  The catch block of executeAction
\* does not read this.connected again.
AutomationStep ==
    /\ pc = "automating"
    /\ automation.awaiting # Null
    /\ LET call    == automation.awaiting
           result  == executeAction(call.connected, call.action, call.parameters)
           results == Append(automation.results, result)
       IN  automation' =
               [automation EXCEPT
                   !.results  = results,
                   !.reads    = Append(automation.reads, call.connected),
                   !.awaiting = Null,
                   !.result   = AutomationResult(automation.navigationData, results)]
    /\ UNCHANGED <<initializing, disconnecting, pc, calls, defaultMap, connected, mapType, renormalized, parser, history, allocated, cleanings, rawEntities, normalized, command, commandType, intent, validation, events,
                   navigationUrl, navigationResult>>

\* await executeNavigationAutomation(...) has returned, with success or
\* failure: the handler only logs, nothing is emitted.
AutomationReturns ==
    /\ pc = "automating"
    /\ automation.result # Null
    /\ pc' = "done"
    /\ UNCHANGED <<initializing, disconnecting, defaultMap, connected, automation, mapType, renormalized, parser, history, allocated, cleanings, rawEntities, normalized, command, commandType, intent, validation, calls, events,
                   navigationUrl, navigationResult>>

\* The steps of the handler of one navigation_command.
HandlerNext ==
    \/ ParseCommand
    \/ HandlerCatches
    \/ ValidateIntent
    \/ RejectInvalid
    \/ ExecuteNavigation
    \/ OpenMapSucceeds
    \/ OpenMapFails
    \/ Respond
    \/ EnterExecuteAction
    \/ AutomationStep
    \/ AutomationReturns

\* The handler is not running: its event is still queued; it is suspended
\* at an await (of handleNavigationCommand, which has rejected; of
\* executeNavigation, which waits for the map to open or has returned; of a
\* step of the automation); or it is over.
HandlerWaits ==
    \/ pc \in {"received", "thrown", "opening", "executed", "done"}
    \/ pc = "automating" /\ automation.awaiting # Null

\* The map types setDefaultMap is called with.
DefaultMapChoices == {"baidu", "gaode", "google", "toString"}

\* setDefaultMap(mapType), called by other code of the process while the
\* handler waits: this.defaultMap = mapType when this.supportedMaps[mapType]
\* is truthy (an inherited property is), else it throws to its caller and
\* nothing changes.
SetDefaultMap ==
    /\ HandlerWaits
    /\ \E m \in DefaultMapChoices :
          defaultMap' = IF SupportedMapsLookup(m) # Null THEN m ELSE defaultMap
    /\ UNCHANGED <<initializing, disconnecting, command, commandType, pc, intent, validation, calls, events,
                   navigationUrl, navigationResult, cleanings, rawEntities,
                   normalized, parser, history, allocated, renormalized,
                   mapType, connected, automation>>

Next ==
    \/ HandlerNext
    \/ SetDefaultMap

Spec == Init /\ [][Next]_vars

TypeOK ==
    /\ pc \in {"received", "thrown", "parsed", "validated", "opening",
               "executed", "automating", "done"}
    /\ commandType \in NonStringTypes \cup {"string", "no_data"}
    /\ (pc \in {"parsed", "validated", "opening", "executed", "automating"})
          => intent # Null
    /\ (pc \in {"validated", "opening", "executed", "automating"})
          => validation # Null
    /\ (pc = "opening") => navigationUrl # << >>

(***************************************************************************)
(* Properties.                                                             *)
(***************************************************************************)
\* The cleaned text of the command being handled.
Cleaned == cleanCommand(command)

\* parse has returned.
Parsed == pc \in {"parsed", "validated"}

IntentTypes ==
    {"route_navigation", "destination_navigation", "start_navigation", "unknown"}

NonBlank(x) == trim(x) # << >>

\* C1: for every input string, parse returns an Intent whose type is one of
\* the four type tags, whose confidence lies in [0,1] (0..10 tenths) and
\* whose entities field is present, an object with at most start and end.
C1_ParseReturnsWellFormedIntent ==
    Parsed =>
        /\ intent # Null
        /\ DOMAIN intent =
              {"type", "confidence", "entities", "originalCommand", "parsedIntent"}
        /\ intent.type \in IntentTypes
        /\ intent.confidence \in 0..10
        /\ DOMAIN intent.entities \subseteq {"start", "end"}

\* C1 witness: parse has returned a matched intent for a command.
C1_Witness ==
    /\ pc = "parsed"
    /\ intent # Null
    /\ intent.type = "route_navigation"
    /\ DOMAIN intent.entities = {"start", "end"}

\* C2: the returned Intent carries the raw input verbatim in
\* originalCommand, whether a rule matched or not.
C2_OriginalCommandIsRawInput ==
    Parsed => intent.originalCommand = command

\* The cleaned text t is 从 X c Y with c a connective of the route rule and
\* X, Y non-blank spans.
FromToShape(t) ==
    /\ StartsWithAt(t, 1, Cong)
    /\ \E i \in 2..Len(t), c \in 1..Len(RouteConnective) :
          /\ StartsWithAt(t, i, RouteConnective[c])
          /\ NonBlank(SubSeq(t, Len(Cong) + 1, i - 1))
          /\ NonBlank(SubSeq(t, i + Len(RouteConnective[c]), Len(t)))

\* C3: a cleaned text of the shape 从 X 到 Y is classified route_navigation,
\* never destination_navigation.
C3_FromToIsRoute ==
    (Parsed /\ FromToShape(Cleaned)) => intent.type = "route_navigation"

\* C3 witness: a 从 X 到 Y command, a substring of which the destination
\* rule matches too, has been parsed as a route.
C3_Witness ==
    /\ Parsed
    /\ FromToShape(Cleaned)
    /\ DestinationMatch(Cleaned) # Null
    /\ intent.type = "route_navigation"

\* C4: validateResult rejects every route_navigation intent whose end is the
\* unspecified-destination sentinel, whatever its start, and every one whose
\* start is absent or the current-location sentinel.
C4_RouteWithSentinelIsInvalid ==
    ( /\ pc = "validated"
      /\ intent.type = "route_navigation"
      /\ \/ intent.entities.end = UnspecifiedDestination
         \/ Falsy(intent.entities, "start")
         \/ intent.entities.start = CurrentLocation )
    => validation.valid = FALSE

\* C5: validateResult rejects, with a reason, every destination_navigation
\* intent whose end is absent, empty or the unspecified-destination sentinel.
C5_DestinationWithoutEndIsInvalid ==
    ( /\ pc = "validated"
      /\ intent.type = "destination_navigation"
      /\ \/ Falsy(intent.entities, "end")
         \/ intent.entities.end = UnspecifiedDestination )
    => /\ validation.valid = FALSE
       /\ "error" \in DOMAIN validation

\* C6: Scenario 1, 导航从北京到上海, is a route_navigation from 北京 to 上海
\* with confidence 0.9, and it is valid.
C6_Scenario1 ==
    (pc = "validated" /\ command = DaoHang \o Cong \o BeiJing \o Dao \o ShangHai)
    => /\ intent.type = "route_navigation"
       /\ intent.entities = [start |-> BeiJing, end |-> ShangHai]
       /\ intent.confidence = MatchedConfidence
       /\ validation.valid = TRUE

\* C7 as stated: Scenario 3, 从公司导航回家, is a start_navigation whose start
\* contains 公司 and whose end is the unspecified-destination sentinel, and
\* it is valid.
C7_Scenario3IsStartNavigation ==
    (pc = "validated" /\ command = Cong \o GongSi \o DaoHang \o HuiJia)
    => /\ intent.type = "start_navigation"
       /\ Includes(intent.entities.start, GongSi)
       /\ intent.entities.end = UnspecifiedDestination
       /\ validation.valid = TRUE

\* C7 amended: Scenario 3, 从公司导航回家, is a destination_navigation (the
\* destination rule matches 导航回家 before the start rule is tried, and the
\* text has no 出发/开始) from the current-location sentinel to 回家, with
\* confidence 0.9, and it is valid.
C7_Scenario3IsDestinationNavigation ==
    (pc = "validated" /\ command = Cong \o GongSi \o DaoHang \o HuiJia)
    => /\ intent.type = "destination_navigation"
       /\ intent.entities = [start |-> CurrentLocation, end |-> HuiJia]
       /\ intent.confidence = MatchedConfidence
       /\ validation.valid = TRUE

\* C7 witness: Scenario 3 has been parsed and validated.
C7_Witness ==
    /\ pc = "validated"
    /\ command = Cong \o GongSi \o DaoHang \o HuiJia
    /\ RouteMatch(Cleaned) = Null
    /\ StartMatch(Cleaned) = Null
    /\ validation = [valid |-> TRUE]

\* The raw entities the matching rule extracts from the cleaned text t,
\* before normalization.
RawEntities(t) ==
    LET hit == {n \in 1..Len(navigationPatterns) :
                   PatternMatch(navigationPatterns[n], t) # Null}
        pattern == navigationPatterns[Min(hit)]
    IN  PatternExtract(pattern, PatternMatch(pattern, t))

\* The rewriting C8 describes, from position i: at each position the longest
\* variant that occurs there is replaced as a whole by the canonical name.
RECURSIVE ReplaceWholeVariantsFrom(_, _, _, _)
ReplaceWholeVariantsFrom(s, i, variants, standard) ==
    IF i > Len(s) THEN << >>
    ELSE LET hit == {v \in 1..Len(variants) : StartsWithAt(s, i, variants[v])}
         IN  IF hit = {}
             THEN <<s[i]>> \o ReplaceWholeVariantsFrom(s, i + 1, variants, standard)
             ELSE standard \o
                  ReplaceWholeVariantsFrom(s, i + Max({Len(variants[v]) : v \in hit}),
                                           variants, standard)

\* The location C8 describes for a field: the variants of the first city
\* that occurs in it, each rewritten as a whole.
RewrittenWhole(location) ==
    LET hit == {n \in 1..Len(locationKeywords) :
                   SomeVariantIncluded(location, locationKeywords[n].variants)}
    IN  IF hit = {} THEN location
        ELSE LET city == locationKeywords[Min(hit)]
             IN  ReplaceWholeVariantsFrom(location, 1, city.variants, city.standard)

\* C8: in every location field of a matched intent, every occurrence of
\* every variant of the first city found, the long forms 北京市 and 上海市
\* included, is replaced as a whole by the canonical name.
C8_AliasRewritingIsExhaustive ==
    (Parsed /\ intent.type # "unknown") =>
        LET raw == RawEntities(Cleaned)
        IN  /\ (raw.start # << >> /\ raw.start # CurrentLocation)
                  => intent.entities.start = RewrittenWhole(raw.start)
            /\ (raw.end # << >> /\ raw.end # UnspecifiedDestination)
                  => intent.entities.end = RewrittenWhole(raw.end)

\* The marker words C9 excludes from the destination span.
MarkerWords == {DaoHang, Qu, Dao, QianWang, Cong, Zhi}

\* The span after the marker of DestinationLead that starts the text t.
SpanAfterLead(t) ==
    LET a == CHOOSE x \in 1..Len(DestinationLead) : StartsWithAt(t, 1, DestinationLead[x])
    IN  SubSeq(t, Len(DestinationLead[a]) + 1, Len(t))

\* The cleaned text t is one TO-marker followed by a non-blank span that
\* contains no marker word.
DestinationOnlyShape(t) ==
    /\ \E a \in 1..Len(DestinationLead) : StartsWithAt(t, 1, DestinationLead[a])
    /\ NonBlank(SpanAfterLead(t))
    /\ \A w \in MarkerWords : ~Includes(SpanAfterLead(t), w)

\* C9: a cleaned text that is one TO-marker followed by a non-blank span Y
\* without marker words is a destination_navigation from the
\* current-location sentinel to the normalized trimmed Y, with confidence
\* 0.9, and it is valid.
C9_DestinationOnlyCommand ==
    (pc = "validated" /\ DestinationOnlyShape(Cleaned)) =>
        /\ intent.type = "destination_navigation"
        /\ intent.entities.start = CurrentLocation
        /\ intent.entities.end = normalizeLocation(trim(SpanAfterLead(Cleaned)))
        /\ Len(intent.entities.end) > 0
        /\ ~IsWhiteSpace(Head(intent.entities.end))
        /\ intent.confidence = MatchedConfidence
        /\ validation = [valid |-> TRUE]

\* C9 witness: Scenario 2, 去天安门广场, has been parsed and validated.
C9_Witness ==
    /\ pc = "validated"
    /\ command = Qu \o TianAnMenGuangChang
    /\ DestinationOnlyShape(Cleaned)
    /\ intent.entities = [start |-> CurrentLocation, end |-> TianAnMenGuangChang]

\* The text t contains none of the markers that start a rule.
NoLeadMarker(t) == \A w \in {DaoHang, Qu, Dao, QianWang, Cong} : ~Includes(t, w)

\* C10: an input whose cleaned text is empty or contains none of 导航, 去,
\* 到, 前往, 从 is an unknown intent with confidence 0.1 and empty entities.
C10_NoMarkerIsUnknown ==
    (Parsed /\ NoLeadMarker(Cleaned)) =>
        /\ intent.type = "unknown"
        /\ intent.confidence = UnknownConfidence
        /\ intent.entities = EmptyEntities

\* C10 witness: Scenario 4, 随便说点什么, has been parsed.
C10_Witness ==
    /\ pc = "parsed"
    /\ command = SuiBianShuo
    /\ NoLeadMarker(Cleaned)
    /\ intent.type = "unknown"

\* The elements of a sequence.
Range(seq) == {seq[i] : i \in DOMAIN seq}

\* The events of one name emitted so far.
EventsNamed(name) == SelectSeq(events, LAMBDA e : e.event = name)

TemplateTypes == {"route_navigation", "destination_navigation", "start_navigation"}

\* C11: the confidence is 0.9 exactly for the three template types and 0.1
\* exactly for unknown; no other value is produced.
C11_ConfidenceIsPerRuleConstant ==
    Parsed =>
        /\ intent.confidence \in {MatchedConfidence, UnknownConfidence}
        /\ (intent.confidence = MatchedConfidence) <=> (intent.type \in TemplateTypes)
        /\ (intent.confidence = UnknownConfidence) <=> (intent.type = "unknown")

\* C11 witness: the last rule of the list, the start rule, has matched.
C11_Witness ==
    /\ pc = "parsed"
    /\ intent.type = "start_navigation"
    /\ intent.confidence = MatchedConfidence

\* C12: parse called with null, undefined or another non-string value does
\* not throw and returns an unknown intent with confidence 0.1.
C12_NonStringInputIsUnknown ==
    (commandType \in NonStringTypes /\ "parse" \in Range(calls)) =>
        /\ intent # Null
        /\ intent.type = "unknown"
        /\ intent.confidence = UnknownConfidence
        /\ ErrorEvent("handler_failed") \notin Range(events)

Sentinels == {CurrentLocation, UnspecifiedDestination}

\* C13: every location entity of a returned Intent that is present and not
\* a sentinel is a non-empty string without leading or trailing white
\* space.
C13_EntitiesAreNonEmptyTrimmed ==
    Parsed =>
        \A f \in DOMAIN intent.entities :
            intent.entities[f] \notin Sentinels =>
                /\ intent.entities[f] # << >>
                /\ trim(intent.entities[f]) = intent.entities[f]

\* C14: generateNavigationUrl and openMap are never invoked with an end
\* that is the unspecified-destination sentinel or absent; in particular no
\* start_navigation intent gets that far.
C14_SentinelNeverReachesUrl ==
    ("generateNavigationUrl" \in Range(calls) \/ "openMap" \in Range(calls)) =>
        /\ "end" \in DOMAIN intent.entities
        /\ intent.entities.end # UnspecifiedDestination
        /\ intent.type # "start_navigation"

\* C15: executeNavigation is called only after parse and validateResult,
\* and only when validateResult returned valid:true; when validation fails
\* the only terminal event is one error carrying the validation reason, and
\* executeNavigation, openMap, command_response and the automation are not
\* reached.
C15_TransportProtocol ==
    /\ "executeNavigation" \in Range(calls) =>
          /\ SubSeq(calls, 1, 3) = <<"parse", "validateResult", "executeNavigation">>
          /\ validation = [valid |-> TRUE]
    /\ (validation # Null /\ ~validation.valid) =>
          /\ calls = <<"parse", "validateResult">>
          /\ navigationUrl = << >>
          /\ navigationResult = Null
          /\ EventsNamed("command_response") = << >>
          /\ pc \in {"validated", "done"}
          /\ (pc = "validated") => EventsNamed("error") = << >>
          /\ (pc = "done") => EventsNamed("error") = <<ErrorEvent(validation.error)>>

\* C15 witness: a command whose validation failed has been answered.
C15_Witness ==
    /\ pc = "done"
    /\ validation = [valid |-> FALSE, error |-> "missing_start_or_end"]
    /\ events = <<StatusUpdate("processing"), ErrorEvent("missing_start_or_end")>>

\* C16: an unknown intent is not handed to navigation execution: no map URL
\* is generated or opened and no command_response is emitted for it.
C16_UnknownIsRejectedDownstream ==
    (intent # Null /\ intent.type = "unknown") =>
        /\ "executeNavigation" \notin Range(calls)
        /\ "openMap" \notin Range(calls)
        /\ navigationUrl = << >>
        /\ EventsNamed("command_response") = << >>

\* C19: on every Intent parse returns, validateResult returns {valid: true}
\* or {valid: false, error: reason}; for start_navigation and unknown it
\* returns valid:true.
C19_ValidatorIsTotal ==
    (validation # Null) =>
        /\ \/ validation = [valid |-> TRUE]
           \/ /\ DOMAIN validation = {"valid", "error"}
              /\ validation.valid = FALSE
              /\ validation.error \in {"missing_start_or_end", "missing_destination"}
        /\ intent.type \in {"start_navigation", "unknown"} => validation.valid

\* C19 witness: a start_navigation intent, whose end is the sentinel, has
\* been validated.
C19_Witness ==
    /\ pc = "validated"
    /\ intent.type = "start_navigation"
    /\ intent.entities.end = UnspecifiedDestination
    /\ validation = [valid |-> TRUE]

\* The markers and the connectives of the route shape, as C23 lists them.
ClaimedLeads == {DaoHang, Qu, Dao, QianWang, Cong}

ClaimedConnectives == {Dao, Zhi, Qu, QianWang}

\* A connective starts at position q of t and text follows it.
ConnectiveThenText(t, q) ==
    \E c \in ClaimedConnectives : StartsWithAt(t, q, c) /\ q + Len(c) <= Len(t)

\* The first position after the marker that starts at position i of t, or 0
\* when no marker starts there.
AfterLead(t, i) ==
    IF \E w \in ClaimedLeads : StartsWithAt(t, i, w)
    THEN i + Len(CHOOSE w \in ClaimedLeads : StartsWithAt(t, i, w))
    ELSE 0

\* The positions of t at which a route shape starts: a marker, at least one
\* character, a connective, at least one character.
RouteShapeStarts(t) ==
    {i \in 1..Len(t) :
        /\ AfterLead(t, i) > 0
        /\ \E q \in (AfterLead(t, i) + 1)..Len(t) : ConnectiveThenText(t, q)}

\* The leading marker of the route shape in t ends right before this
\* position.
RouteSpanStart(t) == AfterLead(t, Min(RouteShapeStarts(t)))

\* The positions of the connectives that can close the start span.
RouteConnectivePositions(t) ==
    {q \in (RouteSpanStart(t) + 1)..Len(t) : ConnectiveThenText(t, q)}

\* The entities C23 describes for t: the start span ends at the first
\* connective, the end span is all that follows that connective.
RouteSpans(t) ==
    LET j == RouteSpanStart(t)
        q == Min(RouteConnectivePositions(t))
        c == CHOOSE w \in ClaimedConnectives : StartsWithAt(t, q, w)
    IN  [start |-> trim(SubSeq(t, j, q - 1)),
         end   |-> trim(SubSeq(t, q + Len(c), Len(t)))]

\* C23: when the cleaned text has a route shape with several connectives
\* after its leading marker, the intent is the route rule's: the start is
\* the shortest span that a connective follows, the end is the whole
\* remainder with the later connectives in it, and the rules after the
\* route rule, which would match too, do not decide.
C23_FirstConnectiveSplits ==
    ( /\ Parsed
      /\ RouteShapeStarts(Cleaned) # {}
      /\ Cardinality(RouteConnectivePositions(Cleaned)) >= 2 )
    => /\ intent.type = "route_navigation"
       /\ intent.confidence = MatchedConfidence
       /\ intent.entities = normalizeLocations(RouteSpans(Cleaned))

\* C23 witness: 从北京到上海到广州 has been parsed; the destination rule
\* matches it too.
C23_Witness ==
    /\ Parsed
    /\ command = Cong \o BeiJing \o Dao \o ShangHai \o Dao \o GuangZhou
    /\ Cardinality(RouteConnectivePositions(Cleaned)) = 2
    /\ DestinationMatch(Cleaned) # Null
    /\ intent.type = "route_navigation"
    /\ intent.entities = [start |-> BeiJing, end |-> ShangHai \o Dao \o GuangZhou]

\* The departure words of the start-only shape, as C24 lists them.
ClaimedDepartures == {ChuFa, KaiShi}

\* The positions of t, after 从 and one character at least, at which a
\* departure word starts.
DeparturePositions(t) ==
    {q \in 3..Len(t) : \E d \in ClaimedDepartures : StartsWithAt(t, q, d)}

\* The span X of the shape 从 X 出发 / 从 X 开始: what stands between 从 and
\* the first departure word.
StartSpan(t) == SubSeq(t, 2, Min(DeparturePositions(t)) - 1)

\* The cleaned text t is 从, a non-blank span, a departure word, and it has
\* none of the markers 导航, 去, 到, 前往, 至.
StartOnlyShape(t) ==
    /\ StartsWithAt(t, 1, Cong)
    /\ DeparturePositions(t) # {}
    /\ NonBlank(StartSpan(t))
    /\ \A w \in {DaoHang, Qu, Dao, QianWang, Zhi} : ~Includes(t, w)

\* C24: a cleaned text of the shape 从 X 出发 or 从 X 开始, X non-blank and
\* no other marker in the text, is a start_navigation whose start is the
\* normalized trimmed X and whose end is the unspecified-destination
\* sentinel; and every start_navigation intent has that sentinel as its end.
C24_StartOnlyCommand ==
    Parsed =>
        /\ StartOnlyShape(Cleaned) =>
              /\ intent.type = "start_navigation"
              /\ intent.entities.start = normalizeLocation(trim(StartSpan(Cleaned)))
              /\ intent.entities.end = UnspecifiedDestination
        /\ intent.type = "start_navigation" =>
              /\ DOMAIN intent.entities = {"start", "end"}
              /\ intent.entities.end = UnspecifiedDestination

\* C24 witness: a command of that shape whose span is trimmed and rewritten
\* by the normalizer, 从 北京出发, has been parsed.
C24_Witness ==
    /\ Parsed
    /\ command = Cong \o Space \o BeiJing \o ChuFa
    /\ StartOnlyShape(Cleaned)
    /\ StartSpan(Cleaned) = Space \o BeiJing
    /\ intent.type = "start_navigation"
    /\ intent.entities = [start |-> BeiJing, end |-> UnspecifiedDestination]

\* The cleaned text t is one TO-marker followed by a non-blank destination,
\* and 从 does not occur in it.
ToMarkerThenDestination(t) ==
    /\ \E a \in 1..Len(DestinationLead) : StartsWithAt(t, 1, DestinationLead[a])
    /\ NonBlank(SpanAfterLead(t))
    /\ ~Includes(t, Cong)

\* C26: a cleaned text that is one TO-marker (去, 到, 前往, 导航) followed by
\* a destination Y, without 从, is a destination_navigation whose end is the
\* normalized trimmed Y, also when Y contains 到, 至 or 去 or begins with a
\* TO-marker; it is never a route_navigation with Y split in two.
C26_DestinationIsNeverSplit ==
    (Parsed /\ ToMarkerThenDestination(Cleaned)) =>
        /\ intent.type = "destination_navigation"
        /\ intent.entities.start = CurrentLocation
        /\ intent.entities.end = normalizeLocation(trim(SpanAfterLead(Cleaned)))

(***************************************************************************)
(* SpecClean: cleanCommand applied to a text, then to its own result.      *)
(* The texts are all strings of at most MaxCleanLen characters over the    *)
(* three filler characters, two kinds of white space (a space and a line   *)
(* feed) and two other characters.                                         *)
(***************************************************************************)
MaxCleanLen == 5

CleanAlphabet == {Qing[1], Bang[1], Wo[1], 32, 10, Cong[1], Jia[1]}

RECURSIVE StringsOver(_, _)
StringsOver(alphabet, n) ==
    IF n = 0 THEN {<< >>}
    ELSE LET shorter == StringsOver(alphabet, n - 1)
         IN  shorter \cup {<<c>> \o t : c \in alphabet, t \in shorter}

CleanInputs == StringsOver(CleanAlphabet, MaxCleanLen)

InitClean ==
    /\ commandType = "string"
    /\ command \in CleanInputs
    /\ pc = "raw"
    /\ intent = Null
    /\ validation = Null
    /\ calls = << >>
    /\ events = << >>
    /\ navigationUrl = << >>
    /\ navigationResult = Null
    /\ cleanings = << >>
    /\ initializing = 0
    /\ disconnecting = 0
    /\ defaultMap = DefaultMapAtConstruction
    /\ connected = FALSE
    /\ automation = Null
    /\ mapType = DefaultMapAtConstruction
    /\ renormalized = Null
    /\ parser = IntentParserObject
    /\ history = << >>
    /\ allocated = 0
    /\ rawEntities = Null
    /\ normalized = Null

\* const cleanedCommand = this.cleanCommand(command)
CleanCommand ==
    /\ pc = "raw"
    /\ cleanings' = <<cleanCommand(command)>>
    /\ pc' = "cleaned"
    /\ UNCHANGED <<initializing, disconnecting, defaultMap, connected, automation, mapType, renormalized, parser, history, allocated, command, commandType, intent, validation, calls, events,
                   navigationUrl, navigationResult, rawEntities, normalized>>

\* cleanCommand applied to the text it returned.
CleanAgain ==
    /\ pc = "cleaned"
    /\ cleanings' = Append(cleanings, cleanCommand(cleanings[1]))
    /\ pc' = "recleaned"
    /\ UNCHANGED <<initializing, disconnecting, defaultMap, connected, automation, mapType, renormalized, parser, history, allocated, command, commandType, intent, validation, calls, events,
                   navigationUrl, navigationResult, rawEntities, normalized>>

NextClean == CleanCommand \/ CleanAgain

SpecClean == InitClean /\ [][NextClean]_vars

\* C17: cleaning is idempotent, cleanCommand(cleanCommand(s)) = cleanCommand(s).
C17_CleaningIsIdempotent ==
    (pc = "recleaned") => cleanings[2] = cleanings[1]

\* C17 witness: a text that the cleaner changed, with a filler between two
\* white-space characters inside it, has been cleaned twice.
C17_Witness ==
    /\ pc = "recleaned"
    /\ cleanings[1] # command
    /\ \E i \in 2..(Len(command) - 3) :
          /\ ~IsWhiteSpace(command[i - 1]) /\ command[i - 1] \notin FillerChars
          /\ IsWhiteSpace(command[i])
          /\ command[i + 1] \in FillerChars
          /\ IsWhiteSpace(command[i + 2])
          /\ ~IsWhiteSpace(command[i + 3]) /\ command[i + 3] \notin FillerChars

\* The filler characters C18 names: 请, 帮, 我.
ClaimedFillers == {35831, 24110, 25105}

\* C18: the cleaned text has no filler character, no run of two or more
\* white-space characters and no leading or trailing white space, and its
\* non-white-space characters are the non-filler, non-white-space
\* characters of the input in their order.
C18_CleanerContract ==
    (pc \in {"cleaned", "recleaned"}) =>
        LET r == cleanings[1]
        IN  /\ \A i \in 1..Len(r) : r[i] \notin ClaimedFillers
            /\ \A i \in 1..(Len(r) - 1) : ~(IsWhiteSpace(r[i]) /\ IsWhiteSpace(r[i + 1]))
            /\ r # << >> => (~IsWhiteSpace(r[1]) /\ ~IsWhiteSpace(r[Len(r)]))
            /\ SelectSeq(r, LAMBDA c : ~IsWhiteSpace(c))
                  = SelectSeq(command, LAMBDA c : ~IsWhiteSpace(c)
                                                  /\ c \notin ClaimedFillers)

\* C18 witness: a text with every kind of thing the cleaner removes (a
\* filler, a white-space run, white space at an end) has been cleaned and
\* something is left.
C18_Witness ==
    /\ pc = "cleaned"
    /\ cleanings[1] # << >>
    /\ \E i \in 1..Len(command) : command[i] = 25105
    /\ \E i \in 1..(Len(command) - 1) :
          IsWhiteSpace(command[i]) /\ IsWhiteSpace(command[i + 1])
    /\ IsWhiteSpace(command[Len(command)])

(***************************************************************************)
(* SpecNormalize: normalizeLocations applied to the entities a rule        *)
(* extracts: one field a location, the other the sentinel of the           *)
(* destination rule or of the start rule.  The locations are the           *)
(* concatenations of at most MaxLocationTokens words of city variants,     *)
(* destination categories and characters that join them.                   *)
(***************************************************************************)
MaxLocationTokens == 3

\* 城
Cheng == <<22478>>
\* 机场
JiChang == <<26426, 22330>>
\* 中心医院
ZhongXinYiYuan == <<20013, 24515, 21307, 38498>>

LocationVocabulary ==
    {BeiJing, Shi, DiDu, MoDu, NanJing, JinLing, Cheng, JiChang, ZhongXinYiYuan, HuiJia}

RECURSIVE LocationStrings(_)
LocationStrings(n) ==
    IF n = 0 THEN {<< >>}
    ELSE LET shorter == LocationStrings(n - 1)
         IN  shorter \cup {s \o w : s \in shorter, w \in LocationVocabulary}

Locations == LocationStrings(MaxLocationTokens)

NormalizeInputs ==
    {[start |-> CurrentLocation, end |-> x] : x \in Locations}
    \cup {[start |-> x, end |-> UnspecifiedDestination] : x \in Locations}

InitNormalize ==
    /\ rawEntities \in NormalizeInputs
    /\ normalized = Null
    /\ pc = "extracted"
    /\ commandType = "string"
    /\ command = << >>
    /\ intent = Null
    /\ validation = Null
    /\ calls = << >>
    /\ events = << >>
    /\ navigationUrl = << >>
    /\ navigationResult = Null
    /\ cleanings = << >>
    /\ initializing = 0
    /\ disconnecting = 0
    /\ defaultMap = DefaultMapAtConstruction
    /\ connected = FALSE
    /\ automation = Null
    /\ mapType = DefaultMapAtConstruction
    /\ renormalized = Null
    /\ parser = IntentParserObject
    /\ history = << >>
    /\ allocated = 0

\* const normalizedEntities = this.normalizeLocations(entities)
NormalizeEntities ==
    /\ pc = "extracted"
    /\ normalized' = normalizeLocations(rawEntities)
    /\ pc' = "normalized"
    /\ UNCHANGED <<initializing, disconnecting, defaultMap, connected, automation, mapType, renormalized, parser, history, allocated, command, commandType, intent, validation, calls, events,
                   navigationUrl, navigationResult, cleanings, rawEntities>>

\* normalizeLocations applied to the entities it returned.
NormalizeAgain ==
    /\ pc = "normalized"
    /\ renormalized' = normalizeLocations(normalized)
    /\ pc' = "renormalized"
    /\ UNCHANGED <<initializing, disconnecting, defaultMap, connected, automation, mapType, parser, history, allocated, command, commandType, intent, validation,
                   calls, events, navigationUrl, navigationResult, cleanings,
                   rawEntities, normalized>>

NextNormalize == NormalizeEntities \/ NormalizeAgain

SpecNormalize == InitNormalize /\ [][NextNormalize]_vars

\* The location contains a variant of some city of the alias table.
HasCityVariant(location) ==
    \E n \in 1..Len(locationKeywords) :
        \E v \in 1..Len(locationKeywords[n].variants) :
            Includes(location, locationKeywords[n].variants[v])

\* The location contains a destination-category alias.
HasCategoryAlias(location) ==
    \E n \in 1..Len(commonDestinations) :
        \E v \in 1..Len(commonDestinations[n].variants) :
            Includes(location, commonDestinations[n].variants[v])

\* C20: a location field without any city variant comes back unchanged,
\* also when it contains a destination-category alias, and the sentinels
\* 当前位置 (start) and 未指定目的地 (end) come back unchanged.
C20_NormalizationPassThrough ==
    (pc = "normalized") =>
        /\ DOMAIN normalized = {"start", "end"}
        /\ \A f \in {"start", "end"} :
              ~HasCityVariant(rawEntities[f]) => normalized[f] = rawEntities[f]
        /\ rawEntities.start = CurrentLocation => normalized.start = CurrentLocation
        /\ rawEntities.end = UnspecifiedDestination
              => normalized.end = UnspecifiedDestination

\* C20 witness: a destination with a category alias (中心医院) and no city
\* has been normalized, beside the current-location sentinel.
C20_Witness ==
    /\ pc = "normalized"
    /\ rawEntities.start = CurrentLocation
    /\ Includes(rawEntities.end, ZhongXinYiYuan)
    /\ HasCategoryAlias(rawEntities.end)
    /\ ~HasCityVariant(rawEntities.end)
    /\ normalized.end = rawEntities.end

\* The cities of the alias table one of whose variants occurs in the
\* location, by their place in the declaration order.
CitiesIn(location) ==
    {n \in 1..Len(locationKeywords) :
        SomeVariantIncluded(location, locationKeywords[n].variants)}

\* The number of places of s at which the word w occurs.
Occurrences(s, w) == Cardinality({i \in 1..Len(s) : StartsWithAt(s, i, w)})

\* C22: in a location field with variants of two or more cities, the
\* variants of the city declared earliest are rewritten to its canonical
\* name, and every variant of a city declared later is left as it was.
C22_FirstCityWins ==
    (pc = "normalized") =>
        \A f \in {"start", "end"} :
            LET x == rawEntities[f]
                y == normalized[f]
            IN  (x \notin {CurrentLocation, UnspecifiedDestination}
                   /\ Cardinality(CitiesIn(x)) >= 2) =>
                    /\ y = RewrittenWhole(x)
                    /\ \A n \in CitiesIn(x) \ {Min(CitiesIn(x))} :
                          \A v \in 1..Len(locationKeywords[n].variants) :
                              Occurrences(y, locationKeywords[n].variants[v])
                                 >= Occurrences(x, locationKeywords[n].variants[v])

\* C27: normalizing a normalized location changes nothing,
\* normalizeLocation(normalizeLocation(x)) = normalizeLocation(x).
C27_NormalizationIsIdempotent ==
    (pc = "renormalized") => renormalized = normalized

(***************************************************************************)
(* SpecParser: the one IntentParser object of the server, called by the    *)
(* handlers of several requests.  The handlers call it between their       *)
(* awaits, so what the object sees is a sequence of calls in any order:    *)
(* parse, cleanCommand, normalizeLocation, validateResult.                 *)
(*                                                                         *)
(*   parser     the object: the rule list, the lastIndex of each rule's    *)
(*              RegExp, the alias tables                                   *)
(*   history    the calls made so far: operation, argument, result and,    *)
(*              for parse, the identity of the Intent object returned      *)
(*   allocated  the number of Intent objects allocated so far              *)
(***************************************************************************)
MaxCalls == 3

ParserCommands ==
    { Qu \o Jia,
      Cong \o BeiJing \o Dao \o ShangHai,
      Cong \o Jia \o ChuFa,
      Dao \o BeiJing \o Shi,
      Qing \o Qu \o Space \o DiDu,
      SuiBianShuo,
      << >> }

ParserLocations == {DiDu, JinLing \o Cheng, HuiJia}

InitParser ==
    /\ parser = IntentParserObject
    /\ history = << >>
    /\ allocated = 0
    /\ pc = "serving"
    /\ commandType = "string"
    /\ command = << >>
    /\ intent = Null
    /\ validation = Null
    /\ calls = << >>
    /\ events = << >>
    /\ navigationUrl = << >>
    /\ navigationResult = Null
    /\ cleanings = << >>
    /\ initializing = 0
    /\ disconnecting = 0
    /\ defaultMap = DefaultMapAtConstruction
    /\ connected = FALSE
    /\ automation = Null
    /\ mapType = DefaultMapAtConstruction
    /\ renormalized = Null
    /\ rawEntities = Null
    /\ normalized = Null

\* One entry of the history.
Call(op, arg, result, ref) == [op |-> op, arg |-> arg, result |-> result, ref |-> ref]

\* this.intentParser.parse(s): the object literal of the intent is a new
\* object at every call.
CallParse ==
    /\ Len(history) < MaxCalls
    /\ \E s \in ParserCommands :
          LET r == ParseOn(parser, s)
          IN  /\ parser' = r.parser
              /\ allocated' = allocated + 1
              /\ history' = Append(history, Call("parse", s, r.result, allocated + 1))
    /\ UNCHANGED <<initializing, disconnecting, defaultMap, connected, automation, mapType, renormalized, command, commandType, pc, intent, validation, calls, events,
                   navigationUrl, navigationResult, cleanings, rawEntities, normalized>>

\* cleanCommand(s): three calls on the string, nothing of the object is
\* read or written.
CallCleanCommand ==
    /\ Len(history) < MaxCalls
    /\ \E s \in ParserCommands :
          history' = Append(history, Call("cleanCommand", s, cleanCommand(s), 0))
    /\ UNCHANGED <<initializing, disconnecting, defaultMap, connected, automation, mapType, renormalized, parser, allocated, command, commandType, pc, intent, validation,
                   calls, events, navigationUrl, navigationResult, cleanings,
                   rawEntities, normalized>>

\* normalizeLocation(x): the tables are read with Object.entries, some and
\* includes; the RegExp of the replacement is built anew at each call.
CallNormalizeLocation ==
    /\ Len(history) < MaxCalls
    /\ \E x \in ParserLocations :
          history' = Append(history, Call("normalizeLocation", x, normalizeLocation(x), 0))
    /\ UNCHANGED <<initializing, disconnecting, defaultMap, connected, automation, mapType, renormalized, parser, allocated, command, commandType, pc, intent, validation,
                   calls, events, navigationUrl, navigationResult, cleanings,
                   rawEntities, normalized>>

\* validateResult(intent) on an intent that parse returned: it reads the
\* intent and returns a new result object.
CallValidateResult ==
    /\ Len(history) < MaxCalls
    /\ \E i \in DOMAIN history :
          /\ history[i].op = "parse"
          /\ history' = Append(history, Call("validateResult", history[i].result,
                                             validateResult(history[i].result), 0))
    /\ UNCHANGED <<initializing, disconnecting, defaultMap, connected, automation, mapType, renormalized, parser, allocated, command, commandType, pc, intent, validation,
                   calls, events, navigationUrl, navigationResult, cleanings,
                   rawEntities, normalized>>

NextParser ==
    \/ CallParse
    \/ CallCleanCommand
    \/ CallNormalizeLocation
    \/ CallValidateResult

SpecParser == InitParser /\ [][NextParser]_vars

\* The calls of parse in the history.
ParseCalls == {i \in DOMAIN history : history[i].op = "parse"}

\* C21: whatever calls were made, in whatever order, the rule list, the
\* state of its expressions and the two alias tables are as the constructor
\* left them; every parse returned what parse returns for that string on a
\* parser nothing has called yet, so two calls with the same string agree;
\* and no two calls of parse returned the same Intent object.
C21_ParserIsStateless ==
    /\ parser = IntentParserObject
    /\ \A i \in ParseCalls :
          history[i].result = ParseOn(IntentParserObject, history[i].arg).result
    /\ \A i, j \in ParseCalls :
          /\ history[i].arg = history[j].arg => history[i].result = history[j].result
          /\ i # j => history[i].ref # history[j].ref

\* C21 witness: the same command was parsed twice, as a matched intent, with
\* the parse of another command between the two calls.
C21_Witness ==
    /\ Len(history) = 3
    /\ ParseCalls = {1, 2, 3}
    /\ history[1].arg = history[3].arg
    /\ history[2].arg # history[1].arg
    /\ history[1].result.type = "destination_navigation"
    /\ history[2].result.type = "route_navigation"
    /\ history[1].result = history[3].result
    /\ history[1].ref # history[3].ref

(***************************************************************************)
(* SpecNavigate: NavigationService.executeNavigation called with an intent *)
(* and a map type.  The intents are null, an intent without entities, and  *)
(* the intents parse returns for the commands of NavigateCommands; the map *)
(* types are the two supported ones, an unknown one, and the name of a     *)
(* property every object inherits.                                         *)
(***************************************************************************)
\* 'A b&c/1': letters, a digit and characters encodeURIComponent escapes
AsciiPlace == <<65, 32, 98, 38, 99, 47, 49>>

\* U+1F600 as its surrogate pair
EmojiPlace == <<55357, 56832>>

\* a high surrogate alone
LoneSurrogate == <<55357>>

NavigateCommands ==
    { Qu \o Jia,
      Cong \o BeiJing \o Dao \o ShangHai,
      Cong \o Jia \o ChuFa,
      SuiBianShuo,
      Cong \o CurrentLocation \o Dao \o ShangHai,
      Cong \o BeiJing \o Dao \o CurrentLocation,
      Qu \o UnspecifiedDestination,
      Cong \o Space \o Dao \o ShangHai,
      Qu \o AsciiPlace,
      Qu \o EmojiPlace,
      Qu \o LoneSurrogate,
      Cong \o DiDu \o Zhi \o ShangHai \o Shi }

NavigateIntents ==
    {Null, [type |-> "route_navigation"]} \cup {parse(c) : c \in NavigateCommands}

MapTypes == {"baidu", "gaode", "google", "toString", "valueOf", "__proto__"}

InitNavigate ==
    /\ intent \in NavigateIntents
    /\ mapType \in MapTypes
    /\ pc = "called"
    /\ commandType = "string"
    /\ command = << >>
    /\ validation = Null
    /\ calls = << >>
    /\ events = << >>
    /\ navigationUrl = << >>
    /\ navigationResult = Null
    /\ cleanings = << >>
    /\ initializing = 0
    /\ disconnecting = 0
    /\ defaultMap = DefaultMapAtConstruction
    /\ connected = FALSE
    /\ automation = Null
    /\ rawEntities = Null
    /\ normalized = Null
    /\ renormalized = Null
    /\ parser = IntentParserObject
    /\ history = << >>
    /\ allocated = 0

\* executeNavigation(intent, mapType), up to the await of openMap.
CallExecuteNavigation ==
    /\ pc = "called"
    /\ executeNavigation(mapType)
    /\ UNCHANGED <<initializing, disconnecting, defaultMap, connected, automation, renormalized, parser, history, allocated, cleanings,
                   rawEntities, normalized, command, commandType, intent,
                   validation, events>>

NextNavigate ==
    \/ CallExecuteNavigation
    \/ OpenMapSucceeds
    \/ OpenMapFails

SpecNavigate == InitNavigate /\ [][NextNavigate]_vars

\* The geolocation word of each map, as C25 gives it.
ClaimedGeolocation ==
    [baidu |-> <<109, 121, 112, 111, 115>>, gaode |-> <<104, 101, 114, 101>>]

\* The fixed parts of the two templates around the two locations.
ClaimedUrlParts ==
    [baidu |-> << <<104, 116, 116, 112, 115, 58, 47, 47, 109, 97, 112, 46, 98,
                    97, 105, 100, 117, 46, 99, 111, 109, 47, 100, 105, 114, 47>>,
                  <<47, 64>>,
                  <<47>> >>,
     gaode |-> << <<104, 116, 116, 112, 115, 58, 47, 47, 117, 114, 105, 46, 97,
                    109, 97, 112, 46, 99, 111, 109, 47, 110, 97, 118, 105, 103,
                    97, 116, 105, 111, 110, 63, 102, 114, 111, 109, 61>>,
                  <<38, 116, 111, 61>>,
                  << >> >>]

\* The locations of the explored intents, each with its URL encoding (the
\* UTF-8 octets of every character other than A-Z a-z 0-9 - _ . ! ~ * ' ( )
\* written %HH).
UrlEncodings ==
    { <<Jia,
        <<37, 69, 53, 37, 65, 69, 37, 66, 54>>>>,
      <<BeiJing,
        <<37, 69, 53, 37, 56, 67, 37, 57, 55, 37, 69, 52, 37, 66, 65, 37,
          65, 67>>>>,
      <<ShangHai,
        <<37, 69, 52, 37, 66, 56, 37, 56, 65, 37, 69, 54, 37, 66, 53, 37,
          66, 55>>>>,
      <<ShangHai \o Shi,
        <<37, 69, 52, 37, 66, 56, 37, 56, 65, 37, 69, 54, 37, 66, 53, 37,
          66, 55, 37, 69, 53, 37, 66, 56, 37, 56, 50>>>>,
      <<UnspecifiedDestination,
        <<37, 69, 54, 37, 57, 67, 37, 65, 65, 37, 69, 54, 37, 56, 67, 37,
          56, 55, 37, 69, 53, 37, 65, 69, 37, 57, 65, 37, 69, 55, 37, 57,
          66, 37, 65, 69, 37, 69, 55, 37, 57, 65, 37, 56, 52, 37, 69, 53,
          37, 57, 67, 37, 66, 48>>>>,
      <<AsciiPlace,
        <<65, 37, 50, 48, 98, 37, 50, 54, 99, 37, 50, 70, 49>>>>,
      <<EmojiPlace,
        <<37, 70, 48, 37, 57, 70, 37, 57, 56, 37, 56, 48>>>> }

\* The URL encoding of the current-location sentinel 当前位置.
EncodedCurrentLocation ==
    <<37, 69, 53, 37, 66, 68, 37, 57, 51, 37, 69, 53, 37, 56, 57, 37,
      56, 68, 37, 69, 52, 37, 66, 68, 37, 56, 68, 37, 69, 55, 37, 66,
      68, 37, 65, 69>>

UrlEncoded(x) == (CHOOSE p \in UrlEncodings : p[1] = x)[2]

\* C25: when generateNavigationUrl is given the current-location sentinel
\* as start, the URL has the geolocation word of the map (mypos for baidu,
\* here for gaode) in the start position and nowhere the URL-encoded
\* sentinel; every other location stands URL-encoded in its position; and
\* neither placeholder of the template is left.
C25_CurrentLocationIsResolved ==
    (navigationUrl # << >> /\ DOMAIN intent.entities = {"start", "end"}) =>
        LET Piece(x) == IF x = CurrentLocation THEN ClaimedGeolocation[mapType]
                        ELSE UrlEncoded(x)
            parts    == ClaimedUrlParts[mapType]
        IN  /\ navigationUrl = parts[1] \o Piece(intent.entities.start) \o parts[2]
                                  \o Piece(intent.entities.end) \o parts[3]
            /\ ~Includes(navigationUrl, StartPlaceholder)
            /\ ~Includes(navigationUrl, EndPlaceholder)
            /\ ~Includes(navigationUrl, EncodedCurrentLocation)

\* C25 witness: the URL of 去A b&c/1 for gaode has been built, from the
\* current-location sentinel to a destination that needs escaping.
C25_Witness ==
    /\ pc = "opening"
    /\ mapType = "gaode"
    /\ intent.entities = [start |-> CurrentLocation, end |-> AsciiPlace]
    /\ navigationUrl = ClaimedUrlParts.gaode[1] \o <<104, 101, 114, 101>>
                          \o <<38, 116, 111, 61>>
                          \o <<65, 37, 50, 48, 98, 37, 50, 54, 99, 37, 50, 70, 49>>

\* The steps of executeNavigation in their order.
NavigationSteps ==
    <<"executeNavigation", "validateNavigationIntent", "generateNavigationUrl", "openMap">>

\* C29: executeNavigation never rejects, whatever the intent (null too) and
\* the map type: it resolves to success:true with the details, or to
\* success:false with an error.  Its steps run in the order intent check,
\* map-type check, URL, browser: an invalid intent is reported before an
\* unsupported map, for either of them openMap is not called and success is
\* false, and a failure of openMap gives success:false with its message.
C29_ExecuteNavigationNeverRejects ==
    /\ pc # "rejected"
    /\ \E n \in 0..Len(NavigationSteps) : calls = SubSeq(NavigationSteps, 1, n)
    /\ (pc = "opening") =>
          /\ validateNavigationIntent(intent).valid
          /\ mapType \in {"baidu", "gaode"}
    /\ (pc = "executed") =>
          /\ navigationResult # Null
          /\ navigationResult.success =>
                /\ DOMAIN navigationResult = {"success", "details"}
                /\ calls = NavigationSteps
                /\ navigationResult.details.url = navigationUrl
          /\ ~navigationResult.success =>
                DOMAIN navigationResult = {"success", "error"}
          /\ ~validateNavigationIntent(intent).valid =>
                /\ ~navigationResult.success
                /\ navigationResult.error = validateNavigationIntent(intent).error
                /\ "openMap" \notin Range(calls)
          /\ mapType \notin {"baidu", "gaode"} =>
                /\ ~navigationResult.success
                /\ "openMap" \notin Range(calls)
          /\ (validateNavigationIntent(intent).valid /\ mapType = "google") =>
                /\ navigationResult.error = "unsupported_map"
                /\ "generateNavigationUrl" \notin Range(calls)
          /\ ("openMap" \in Range(calls) /\ ~navigationResult.success) =>
                navigationResult.error = "cannot_open_map"

\* C29 witness: openMap was called for a valid intent on gaode and failed;
\* executeNavigation resolved to the failure.
C29_Witness ==
    /\ pc = "executed"
    /\ mapType = "gaode"
    /\ intent # Null
    /\ validateNavigationIntent(intent).valid
    /\ calls = NavigationSteps
    /\ navigationResult = NavigationFailure("cannot_open_map")

(***************************************************************************)
(* The handling of one navigation_command under fairness: the awaited      *)
(* calls (the map open, the automation steps) return and the handler runs  *)
(* on, so every enabled step of the handler is eventually taken.           *)
(***************************************************************************)
MaxLiveTokens == 1

LiveCommands == TokenStrings(MaxLiveTokens) \cup Scenarios

InitLive ==
    /\ \/ commandType = "string" /\ command \in LiveCommands
       \/ commandType \in NonStringTypes \cup {"no_data"} /\ command = << >>
    /\ pc = "received"
    /\ intent = Null
    /\ validation = Null
    /\ calls = << >>
    /\ events = << >>
    /\ navigationUrl = << >>
    /\ navigationResult = Null
    /\ cleanings = << >>
    /\ initializing = 0
    /\ disconnecting = 0
    /\ defaultMap = DefaultMapAtConstruction
    /\ connected = connect
    /\ automation = Null
    /\ mapType = DefaultMapAtConstruction
    /\ renormalized = Null
    /\ parser = IntentParserObject
    /\ history = << >>
    /\ allocated = 0
    /\ rawEntities = Null
    /\ normalized = Null

\* The steps of the handler after the first.
HandlerRuns == pc # "received" /\ HandlerNext

\* Weak fairness of every step of the handler.  For the first step,
\* ParseCommand, it is written without ENABLED: that step is enabled exactly
\* while pc = "received" and leaves that position, so its weak fairness is
\* that the position is eventually left.
SpecLive ==
    /\ InitLive
    /\ [][Next]_vars
    /\ <>(pc # "received")
    /\ WF_vars(HandlerRuns)

\* The positions of the terminal events emitted so far.
TerminalEvents ==
    {i \in 1..Len(events) : events[i].event \in {"command_response", "error"}}

Emitted(name) == \E i \in 1..Len(events) : events[i].event = name

Called(op) == \E i \in 1..Len(calls) : calls[i] = op

\* What holds at every moment of the handling: at most one terminal event;
\* command_response only when executeNavigation has returned success true;
\* the automation client is invoked only after command_response; once the
\* automation is under way or over, there is no error event.
TerminalEventDiscipline ==
    /\ Cardinality(TerminalEvents) <= 1
    /\ Emitted("command_response") =>
          navigationResult # Null /\ navigationResult.success
    /\ (Called("executeNavigationAutomation") \/ Called("executeAction")
            \/ automation # Null)
          => Emitted("command_response") /\ ~Emitted("error")

\* The handling is over with exactly one terminal event.
HandledWithOneTerminalEvent ==
    /\ pc = "done"
    /\ Cardinality(TerminalEvents) = 1

\* C28: for every navigation_command, whatever its payload, the server
\* eventually emits exactly one of command_response or error, never both and
\* never neither; command_response is emitted only after executeNavigation
\* returned success true, the automation client is invoked only after
\* command_response, and the automation's outcome never produces an error
\* event.
C28_ExactlyOneTerminalEvent ==
    /\ []TerminalEventDiscipline
    /\ <>[]HandledWithOneTerminalEvent

\* C28 witness: a command was answered with command_response, the three
\* automation steps ran and the automation returned, and the handling ended
\* without an error event.
C28_Witness ==
    /\ pc = "done"
    /\ Emitted("command_response")
    /\ ~Emitted("error")
    /\ automation # Null
    /\ Len(automation.results) = 3
    /\ automation.result # Null

(***************************************************************************)
(* The automation client on its own: executeAction and                     *)
(* executeNavigationAutomation called on a client whose connected field is *)
(* false (what initialize leaves) or true (the field set for a connected   *)
(* client; callTool still has no MCP client to call and throws).           *)
(***************************************************************************)
\* 'https://a.b'
AutomationUrl == <<104, 116, 116, 112, 115, 58, 47, 47, 97, 46, 98>>

\* '#go'
GoSelector == <<35, 103, 111>>

\* The actions tried: the six tools and two names that are none of them.
AutomationActions ==
    {"open_browser", "navigate_to_url", "type_text", "click_element",
     "wait_for_element", "take_screenshot", "close_browser", "toString"}

\* The parameter objects tried.
AutomationParameters ==
    {NoParameters,
     [url |-> AutomationUrl],
     [text |-> BeiJing],
     [selector |-> GoSelector],
     [selector |-> RouteInfoSelector, timeout |-> 5000],
     [url |-> AutomationUrl, text |-> BeiJing, selector |-> GoSelector]}

\* The navigation data tried.
AutomationNavigations ==
    {[mapType |-> "baidu", navigationUrl |-> AutomationUrl, end |-> BeiJing],
     [mapType |-> "gaode", navigationUrl |-> AutomationUrl,
      start |-> ShangHai, end |-> BeiJing],
     [mapType |-> "baidu", navigationUrl |-> << >>, end |-> BeiJing],
     [mapType |-> "google", navigationUrl |-> GoSelector, start |-> BeiJing]}

InitAutomation ==
    /\ connected \in BOOLEAN
    /\ automation = Null
    /\ pc = "idle"
    /\ command = << >>
    /\ commandType = "string"
    /\ intent = Null
    /\ validation = Null
    /\ calls = << >>
    /\ events = << >>
    /\ navigationUrl = << >>
    /\ navigationResult = Null
    /\ cleanings = << >>
    /\ initializing = 0
    /\ disconnecting = 0
    /\ defaultMap = DefaultMapAtConstruction
    /\ mapType = DefaultMapAtConstruction
    /\ renormalized = Null
    /\ parser = IntentParserObject
    /\ history = << >>
    /\ allocated = 0
    /\ rawEntities = Null
    /\ normalized = Null

\* The client is not running: no call was made yet, the call made waits for
\* its timer, or it has returned.  Other code of the process runs then: it
\* may call initialize or disconnect, and the calls of them that wait may
\* resume.
AutomationWaits ==
    \/ pc \in {"idle", "acting", "acted", "done"}
    \/ pc = "automating" /\ automation.awaiting # Null

\* How many calls of initialize and of disconnect, together, are explored.
MaxLifecycleCalls == 2

LifecycleCalls ==
    Cardinality({i \in 1..Len(calls) : calls[i] \in {"initialize", "disconnect"}})

\* initialize() is called: it awaits mcpClient.connect() and has written
\* nothing yet.
CallInitialize ==
    /\ AutomationWaits
    /\ LifecycleCalls < MaxLifecycleCalls
    /\ initializing' = initializing + 1
    /\ calls' = Append(calls, "initialize")
    /\ UNCHANGED <<disconnecting, connected, defaultMap, pc, automation, command, commandType, intent, validation, events,
                   navigationUrl, navigationResult, cleanings, mapType,
                   renormalized, parser, history, allocated, rawEntities,
                   normalized>>

\* A waiting initialize() resumes: this.connected = the value connect()
\* resolved to.
InitializeResumes ==
    /\ AutomationWaits
    /\ initializing > 0
    /\ connected' = connect
    /\ initializing' = initializing - 1
    /\ UNCHANGED <<disconnecting, calls, defaultMap, pc, automation, command, commandType, intent, validation, events,
                   navigationUrl, navigationResult, cleanings, mapType,
                   renormalized, parser, history, allocated, rawEntities,
                   normalized>>

\* disconnect() is called: if (this.connected) it awaits
\* mcpClient.disconnect() and has written nothing yet; else it does nothing.
CallDisconnect ==
    /\ AutomationWaits
    /\ LifecycleCalls < MaxLifecycleCalls
    /\ disconnecting' = IF connected THEN disconnecting + 1 ELSE disconnecting
    /\ calls' = Append(calls, "disconnect")
    /\ UNCHANGED <<initializing, connected, defaultMap, pc, automation, command, commandType, intent, validation, events,
                   navigationUrl, navigationResult, cleanings, mapType,
                   renormalized, parser, history, allocated, rawEntities,
                   normalized>>

\* A waiting disconnect() resumes: this.connected = false.
DisconnectResumes ==
    /\ AutomationWaits
    /\ disconnecting > 0
    /\ connected' = FALSE
    /\ disconnecting' = disconnecting - 1
    /\ UNCHANGED <<initializing, calls, defaultMap, pc, automation, command, commandType, intent, validation, events,
                   navigationUrl, navigationResult, cleanings, mapType,
                   renormalized, parser, history, allocated, rawEntities,
                   normalized>>

\* executeAction(action, parameters) is called on its own: it reads
\* this.connected and awaits.
CallExecuteAction ==
    /\ pc = "idle"
    /\ \E action \in AutomationActions, parameters \in AutomationParameters :
          automation' = [action     |-> action,
                         parameters |-> parameters,
                         connected  |-> connected,
                         result     |-> Null]
    /\ calls' = Append(calls, "executeAction")
    /\ pc' = "acting"
    /\ UNCHANGED <<initializing, disconnecting, defaultMap, connected, command, commandType, intent, validation, events,
                   navigationUrl, navigationResult, cleanings, mapType,
                   renormalized, parser, history, allocated, rawEntities,
                   normalized>>

\* The awaited executeAction returns.
ExecuteActionReturns ==
    /\ pc = "acting"
    /\ automation' =
          [automation EXCEPT
              !.result = executeAction(automation.connected, automation.action,
                                       automation.parameters)]
    /\ pc' = "acted"
    /\ UNCHANGED <<initializing, disconnecting, defaultMap, connected, calls, command, commandType, intent, validation, events,
                   navigationUrl, navigationResult, cleanings, mapType,
                   renormalized, parser, history, allocated, rawEntities,
                   normalized>>

\* executeNavigationAutomation(navigationData) is entered.
CallExecuteNavigationAutomation ==
    /\ pc = "idle"
    /\ \E navigationData \in AutomationNavigations :
          automation' = AutomationEntered(navigationData)
    /\ calls' = Append(calls, "executeNavigationAutomation")
    /\ pc' = "automating"
    /\ UNCHANGED <<initializing, disconnecting, defaultMap, connected, command, commandType, intent, validation, events,
                   navigationUrl, navigationResult, cleanings, mapType,
                   renormalized, parser, history, allocated, rawEntities,
                   normalized>>

NextAutomation ==
    \/ CallInitialize
    \/ InitializeResumes
    \/ CallDisconnect
    \/ DisconnectResumes
    \/ CallExecuteAction
    \/ ExecuteActionReturns
    \/ CallExecuteNavigationAutomation
    \/ EnterExecuteAction
    \/ AutomationStep
    \/ AutomationReturns

SpecAutomation == InitAutomation /\ [][NextAutomation]_vars

\* The six actions the claim calls supported.
ClaimedActions ==
    {"open_browser", "navigate_to_url", "type_text", "click_element",
     "wait_for_element", "take_screenshot"}

\* The order of steps the claim states.
ClaimedStepOrder == <<"open_browser", "navigate_to_url", "wait_for_element">>

\* x is a returned object with a success flag, not a thrown value.
Returned(x) ==
    /\ ~IsThrown(x)
    /\ "success" \in DOMAIN x
    /\ x.success \in BOOLEAN

\* x is a simulated success.
Simulated(x) ==
    /\ x.success
    /\ "simulated" \in DOMAIN x
    /\ x.simulated = TRUE

\* What the claim says of the result of executeAction(action, ...) on a
\* client that was connected, or not, when the call was made.
ClaimedActionResult(action, wasConnected, x) ==
    /\ Returned(x)
    /\ x.action = action
    /\ IF action \in ClaimedActions
       THEN /\ Simulated(x)
            /\ IF wasConnected
               THEN "fallback" \in DOMAIN x /\ x.fallback = TRUE
               ELSE "fallback" \notin DOMAIN x
       ELSE ~x.success

\* C30: executeAction never rejects, every failure is a returned object with
\* success false.  Not connected, it returns a simulated success for each of
\* the six supported actions and success false for any other action;
\* connected, where callTool throws, it falls back to the simulation and
\* marks the result fallback true.  executeNavigationAutomation runs
\* open_browser, navigate_to_url, wait_for_element in that order, stops at
\* the first step with success false, and returns an object with a success
\* flag (true exactly when the three steps succeeded), never rejects.
C30_AutomationNeverRejects ==
    /\ (pc = "acted") =>
          ClaimedActionResult(automation.action, automation.connected,
                              automation.result)
    /\ (pc \in {"automating", "done"}) =>
          LET results == automation.results
          IN  /\ Len(results) <= Len(ClaimedStepOrder)
              /\ \A i \in 1..Len(results) :
                    /\ ClaimedActionResult(ClaimedStepOrder[i], automation.reads[i],
                                           results[i])
                    /\ i < Len(results) => results[i].success
              /\ (automation.result = Null) =>
                    /\ pc = "automating"
                    /\ Len(results) < Len(ClaimedStepOrder)
                    /\ \A i \in 1..Len(results) : results[i].success
              /\ (automation.result # Null) =>
                    /\ Returned(automation.result)
                    /\ Len(results) >= 1
                    /\ automation.result.success <=>
                          /\ Len(results) = Len(ClaimedStepOrder)
                          /\ \A i \in 1..Len(results) : results[i].success
                    /\ ~automation.result.success =>
                          ~results[Len(results)].success

\* C30 witness: on a connected client a supported action fell back to the
\* simulation and came back marked fallback.
C30_Witness ==
    /\ pc = "acted"
    /\ automation.connected
    /\ automation.action = "navigate_to_url"
    /\ automation.result.success
    /\ automation.result.simulated
    /\ automation.result.fallback

====
